---- MODULE Spec2Model ----
(***************************************************************************)
(* Partitioned embedding cache manager of AmpliGraph                       *)
(* (ampligraph/datasets/partitioned_data_manager.py, data_adapter.py).     *)
(*                                                                         *)
(* A k-wide float vector is one natural number; a matrix is a sequence of  *)
(* rows; an optimizer state of shape (n, w, k) is a sequence of n rows,    *)
(* each a sequence of w numbers.  IDs, bucket numbers, partition numbers   *)
(* and array positions are 0-based as in the code; TLA+ sequences are      *)
(* 1-based, so position p of an array a is a[p + 1].                       *)
(***************************************************************************)
EXTENDS Integers, Sequences, FiniteSets, TLC

\* ------------------------------------------------------------------ bounds

\* number of global entity IDs (mapper.ents_length)
NumEnts == 3
\* number of global relation IDs (mapper.rels_length)
NumRels == 2
\* number of partitions (Flat) or buckets (Bucket): partitioner._k
PartitionerK == 2
\* a partition emits 0..MaxBatches batches
MaxBatches == 2
\* the trainer makes at most MaxTrain training steps in one run
MaxTrain == 2
\* ... and at most MaxBucketTrain when the Bucket manager's methods are called directly
MaxBucketTrain == 1
\* reload() is called at most MaxReloads times in one run
MaxReloads == 2

\* the optimizer-state width the store is initialised with
OptWidth == 3

\* values of optimizer.get_hyperparam_count() tried
OptCounts == {0, OptWidth}

\* model.current_epoch goes from 1 to MaxEpoch
MaxEpoch == 2
MaxInitialEpoch == 1
MaxBucketIndex == 11
MaxOptCount == 4
\* _generate_partition_params alone is run for 0..MaxGenEnts entities over 1..MaxGenK partitions
MaxGenEnts == 11
MaxGenK == 5

Ents == 0 .. (NumEnts - 1)
Rels == 0 .. (NumRels - 1)

\* ----------------------------------------------------------------- helpers

Min(a, b) == IF a <= b THEN a ELSE b

\* np.zeros over n rows of one number
Zeros(n) == [j \in 1 .. n |-> 0]

\* a[:n]
Take(a, n) == SubSeq(a, 1, Min(n, Len(a)))

\* a[n:]
Drop(a, n) == SubSeq(a, Min(n, Len(a)) + 1, Len(a))

\* np.pad(a, ((0, n - len(a)), (0, 0)), constant_values=0); a negative pad is an error
Pad(a, n) == a \o Zeros(n - Len(a))

\* a[ids] with a list of positions (fancy indexing)
Select(a, ids) == [j \in 1 .. Len(ids) |-> a[ids[j] + 1]]

\* the rows appended to the array instead of assigned in place
Scatter_appending(a, ids, rows) == a \o rows

\* a scatter that also overwrites the rows it is not given, with the first row given
Scatter_overwriting(a, ids, rows) ==
    [p \in 1 .. Len(a) |->
        IF \E j \in 1 .. Len(ids) : ids[j] + 1 = p
        THEN rows[CHOOSE j \in 1 .. Len(ids) : ids[j] + 1 = p]
        ELSE IF rows = <<>> THEN a[p] ELSE rows[1]]

\* a[ids] = rows: in-place scatter, the last assignment to a position wins
Scatter(a, ids, rows) ==
    [p \in 1 .. Len(a) |->
        IF \E j \in 1 .. Len(ids) : ids[j] + 1 = p
        THEN rows[CHOOSE j \in 1 .. Len(ids) :
                    /\ ids[j] + 1 = p
                    /\ \A j2 \in 1 .. Len(ids) : ids[j2] + 1 = p => j2 <= j]
        ELSE a[p]]

\* np.stack(tensors, 1): tensors is a list of m matrices of n rows; the result has n rows of m
Stack(tensors, n) == [j \in 1 .. n |-> [i \in 1 .. Len(tensors) |-> tensors[i][j]]]

\* opt[:, i, :] for the 0-based hyperparameter index i
Slice(opt, i) == [j \in 1 .. Len(opt) |-> opt[j][i + 1]]

\* the widths (second dimension) found among the rows of an optimizer state
Widths(opt) == {Len(opt[j]) : j \in 1 .. Len(opt)}

\* flattening a list of matrices: np.concatenate(list, 0)
RECURSIVE Concat(_)
Concat(list) == IF list = <<>> THEN <<>> ELSE Head(list) \o Concat(Tail(list))

\* encoding_layer.ent_init / rel_init: the initial row of a global ID, one distinct value per ID
EntInit(e) == 10 + e
RelInit(r) == 20 + r

\* a store entry [optimizer state, embedding matrix], and a bare embedding row (after on_complete)
Pair(opt, emb) == [kind |-> "pair", opt |-> opt, emb |-> emb]
BareRow(v) == [kind |-> "row", opt |-> <<>>, emb |-> <<v>>]

\* shelf[key] = value
Put(shelf, key, value) == [x \in DOMAIN shelf \cup {key} |-> IF x = key THEN value ELSE shelf[x]]

\* del shelf[key]
Del(shelf, key) == [x \in DOMAIN shelf \ {key} |-> shelf[x]]

\* the one member of a singleton set: The({F(x) : x \in {e}}) is F(e) with e computed once
The(S) == CHOOSE x \in S : TRUE

\* raise: the exception is recorded and every later statement of the call is skipped
Raise(w, exc) == [w EXCEPT !.err = exc]

\* ------------------------------------------------------------------- state

VARIABLES
    strategy,        \* "Flat" (GeneralPartitionedDataManager) or "Bucket" (BucketPartitionedDataManager)
    partitioner,     \* the partitioner: its buckets (files), partitions and their batch cursors
    store,           \* the four shelves: ent_partition, rel_partition and the two metadata shelves
    mgr,             \* the manager's fields: remap tables, working slice, split offsets
    model,           \* the trainer: embedding tensors, optimizer tensors, current_epoch
    handed,          \* the arguments of the trainer notifications of the last _change_partition
    batch_iterator,  \* the generator made by reload(): unset, fresh, suspended in a partition, finished
    ret,             \* what the last call returned or raised
    calls,           \* the _change_partition/_update_partion_embeddings calls made by the last call
    prev,            \* the last partition call made before the last call
    epoch_log,       \* since the last reload(): the partition calls, the batches returned, the training;
                     \* since construction: the partitions persisted by next() calls
    budget,          \* how many trainer changes and reload() calls the run has made
    io,              \* one method seen as its shelve operations: the handles open, the exception raised
    handler,         \* the DataHandler's epoch loop: initial_epoch, epochs, the epochs handed out
    args             \* the arguments of the call that constructs the manager

vars == <<strategy, partitioner, store, mgr, model, handed, batch_iterator, ret, calls, prev,
          epoch_log, budget, io, handler, args>>

\* self.num_rels, self.max_ent_size, self.partitioner_k
num_rels == NumRels
max_ent_size ==
    LET sizes == {Len(partitioner.partitions[p].entities) : p \in 1 .. Len(partitioner.partitions)}
    IN  IF sizes = {} THEN 0 ELSE CHOOSE n \in sizes : \A n2 \in sizes : n2 <= n
partitioner_k == partitioner.k

\* the state a method works on; calls collects the partition calls it makes
World == [store |-> store, mgr |-> mgr, model |-> model, handed |-> handed,
          calls |-> <<>>, err |-> "none"]

\* a partition call is logged with the partition it is made for and the partition the manager
\* holds at that moment
Call(w, op, i) ==
    [w EXCEPT !.calls = Append(@, [op |-> op, part |-> i,
                                   of |-> IF op = "change" THEN i ELSE w.handed.part]),
              !.handed.part = IF op = "change" THEN i ELSE @]

\* ----------------------------------------------------------------- trainer

\* model.partition_change_updates(count, ent_embs, rel_embs): the trainer rebinds its tensors,
\* padded to max_entities / max_relations rows
partition_change_updates(w, count, ent_embs, rel_embs) ==
    [w EXCEPT !.model.count = count,
              !.model.ent_emb = Pad(ent_embs, max_ent_size),
              !.model.rel_emb = Pad(rel_embs, num_rels),
              !.handed.ent_embs = ent_embs,
              !.handed.rel_embs = rel_embs,
              !.handed.opt_set = FALSE]

\* optimizer.set_entity_relation_hyperparams(ent, rel)
set_entity_relation_hyperparams(w, ent_hyperparams, rel_hyperparams) ==
    [w EXCEPT !.model.ent_opt = ent_hyperparams,
              !.model.rel_opt = rel_hyperparams,
              !.handed.ent_opt = ent_hyperparams,
              !.handed.rel_opt = rel_hyperparams,
              !.handed.opt_set = TRUE]

\* the trainer's tensors before the first partition is bound
InitModel(m) ==
    [count |-> 0, ent_emb |-> Zeros(max_ent_size), rel_emb |-> Zeros(num_rels),
     ent_opt |-> [i \in 1 .. m |-> Zeros(max_ent_size)],
     rel_opt |-> [i \in 1 .. m |-> Zeros(num_rels)],
     current_epoch |-> 1, num_opt |-> m]

\* the padding loop shared by both _change_partition methods: one padded tensor per
\* optimizer hyperparameter, relations first, then entities
\* the optimizer rows handed over as they are, without the np.pad calls
PadHyperparams_unpadded(w, ent_opt_params, rel_opt_params) ==
    set_entity_relation_hyperparams(w,
        [i \in 1 .. w.model.num_opt |-> Slice(ent_opt_params, i - 1)],
        [i \in 1 .. w.model.num_opt |-> Slice(rel_opt_params, i - 1)])

PadHyperparams(w, ent_opt_params, rel_opt_params) ==
    LET m == w.model.num_opt IN
    IF \E j \in 1 .. Len(rel_opt_params) : Len(rel_opt_params[j]) < m THEN Raise(w, "IndexError")
    ELSE IF m > 0 /\ num_rels < Len(rel_opt_params) THEN Raise(w, "ValueError")
    ELSE IF \E j \in 1 .. Len(ent_opt_params) : Len(ent_opt_params[j]) < m THEN Raise(w, "IndexError")
    ELSE IF m > 0 /\ max_ent_size < Len(ent_opt_params) THEN Raise(w, "ValueError")
    ELSE set_entity_relation_hyperparams(w,
            [i \in 1 .. m |-> Pad(Slice(ent_opt_params, i - 1), max_ent_size)],
            [i \in 1 .. m |-> Pad(Slice(rel_opt_params, i - 1), num_rels)])

\* the trimmed optimizer rows read back by both _update_partion_embeddings methods
\* (np.stack of the m tensors cut to n rows)
\* the trainer's tensors stacked with their padding rows
StackedHyperparams_untrimmed(tensors, n) ==
    Stack(tensors, IF Len(tensors) = 0 THEN 0 ELSE Len(tensors[1]))

StackedHyperparams(tensors, n) ==
    LET rows == Min(n, IF Len(tensors) = 0 THEN 0 ELSE Len(tensors[1]))
    IN  Stack([i \in 1 .. Len(tensors) |-> Take(tensors[i], n)], rows)

\* ------------------------------------------- Flat: GeneralPartitionedDataManager

\* floor(num_ents / partitioner_k)
UpdatePartSize_floor(n, k) == n \div k

\* ceil(num_ents / partitioner_k)
UpdatePartSize(n, k) == (n + k - 1) \div k

\* the IDs the part_num loops of _generate_partition_params and on_complete go through
GeneralRange(n, k, part_num) ==
    (UpdatePartSize(n, k) * part_num) .. (Min(UpdatePartSize(n, k) * (part_num + 1), n) - 1)

GeneralAllIds(n, k) == UNION {GeneralRange(n, k, part_num) : part_num \in 0 .. (k - 1)}

\* _generate_partition_params: one entry per entity ID and one per relation ID
General_generate_partition_params(n, k) ==
    [ent_partition |-> [i \in GeneralAllIds(n, k) |-> Pair(<<Zeros(OptWidth)>>, <<EntInit(i)>>)],
     rel_partition |-> [i \in Rels |-> Pair(<<Zeros(OptWidth)>>, <<RelInit(i)>>)],
     ent_partition_metadata |-> <<>>,
     rel_partition_metadata |-> <<>>]

\* the "with shelve.open(...)" block that reads the rows of ids out of shelf and concatenates
\* them: the result is [err, embs, opt_params]
GeneralLoad(shelf, ids) ==
    IF \E j \in 1 .. Len(ids) : ids[j] \notin DOMAIN shelf
    THEN [err |-> "KeyError", embs |-> <<>>, opt_params |-> <<>>]
    ELSE IF ids = <<>> \/ \E j \in 1 .. Len(ids) : shelf[ids[j]].kind = "row"
    THEN [err |-> "ValueError", embs |-> <<>>, opt_params |-> <<>>]
    ELSE LET embs == Concat([j \in 1 .. Len(ids) |-> shelf[ids[j]].emb])
             opts == Concat([j \in 1 .. Len(ids) |-> shelf[ids[j]].opt])
         IN  IF Cardinality(Widths(opts)) > 1
             THEN [err |-> "ValueError", embs |-> embs, opt_params |-> <<>>]
             ELSE [err |-> "none", embs |-> embs, opt_params |-> opts]

General_change_partition(w0, partition_number) ==
    LET part == partitioner.partitions[partition_number + 1]
        w == Call(w0, "change", partition_number)
        ents == GeneralLoad(w.store.ent_partition, part.entities)
        rels == GeneralLoad(w.store.rel_partition, part.relations)
        w1 == [w EXCEPT !.mgr.loaded = FALSE,
                        !.mgr.ent_original_ids = part.entities,
                        !.mgr.all_ent_embs = ents.embs,
                        !.mgr.all_ent_opt_params = ents.opt_params]
        w2 == [w1 EXCEPT !.mgr.rel_original_ids = part.relations,
                         !.mgr.all_rel_embs = rels.embs,
                         !.mgr.all_rel_opt_params = rels.opt_params]
        w3 == partition_change_updates([w2 EXCEPT !.mgr.loaded = TRUE],
                                       Len(part.entities), ents.embs, rels.embs)
    IN  IF ents.err # "none" THEN Raise(w1, ents.err)
        ELSE IF rels.err # "none" THEN Raise(w2, rels.err)
        ELSE IF w3.model.current_epoch > 1
             THEN PadHyperparams(w3, ents.opt_params, rels.opt_params)
             ELSE w3

\* the "for i, key in enumerate(ids): shelf[str(key)] = [opt[i:i+1], emb[i:i+1]]" loop
RECURSIVE GeneralPersist(_, _, _, _, _)
GeneralPersist(shelf, ids, opt_params, embs, i) ==
    IF i > Len(ids) THEN shelf
    ELSE GeneralPersist(Put(shelf, ids[i], Pair(SubSeq(opt_params, i, Min(i, Len(opt_params))),
                                                 SubSeq(embs, i, Min(i, Len(embs))))),
                        ids, opt_params, embs, i + 1)

\* _update_partion_embeddings that writes the rows loaded by _change_partition, not the
\* trainer's rows
General_update_stale(w0, partition_number) ==
    LET w == Call(w0, "update", partition_number) IN
    [w EXCEPT !.store.ent_partition = GeneralPersist(@, w.mgr.ent_original_ids,
                                                     w.mgr.all_ent_opt_params,
                                                     w.mgr.all_ent_embs, 1),
              !.store.rel_partition = GeneralPersist(@, w.mgr.rel_original_ids,
                                                     w.mgr.all_rel_opt_params,
                                                     w.mgr.all_rel_embs, 1)]

General_update_partion_embeddings(w0, partition_number) ==
    LET w == Call(w0, "update", partition_number)
        n_ent == Len(w.mgr.ent_original_ids)
        n_rel == Len(w.mgr.rel_original_ids)
        m == w.model.num_opt
        all_ent_embs == Take(w.model.ent_emb, n_ent)
        all_rel_embs == Take(w.model.rel_emb, n_rel)
        all_rel_opt_params == IF m > 0 THEN StackedHyperparams(w.model.rel_opt, n_rel)
                              ELSE w.mgr.all_rel_opt_params
        all_ent_opt_params == IF m > 0 THEN StackedHyperparams(w.model.ent_opt, n_ent)
                              ELSE w.mgr.all_ent_opt_params
    IN  [w EXCEPT !.mgr.all_ent_embs = all_ent_embs,
                  !.mgr.all_rel_embs = all_rel_embs,
                  !.mgr.all_rel_opt_params = all_rel_opt_params,
                  !.mgr.all_ent_opt_params = all_ent_opt_params,
                  !.store.ent_partition = GeneralPersist(@, w.mgr.ent_original_ids,
                                                         all_ent_opt_params, all_ent_embs, 1),
                  !.store.rel_partition = GeneralPersist(@, w.mgr.rel_original_ids,
                                                         all_rel_opt_params, all_rel_embs, 1)]

\* the expansion that stores ent_partition[str(i)][1], the one-row matrix, not its row [1][0]
RECURSIVE GeneralExpand_keeping_matrix(_, _)
GeneralExpand_keeping_matrix(r, ids) ==
    IF ids = {} \/ r.err # "none" THEN r
    ELSE LET i == CHOOSE x \in ids : \A y \in ids : x <= y IN
         IF i \notin DOMAIN r.shelf THEN [r EXCEPT !.err = "KeyError"]
         ELSE IF r.shelf[i].kind = "row" THEN [r EXCEPT !.err = "IndexError"]
         ELSE The({GeneralExpand_keeping_matrix(r1, ids \ {i}) :
                    r1 \in {[r EXCEPT !.shelf = Put(@, i, Pair(<<>>, r.shelf[i].emb))]}})

\* on_complete of the Flat manager: every entry becomes its bare embedding row
\* (ent_partition[str(i)][1][0]); an entry that is already a bare row has no [1][0]
RECURSIVE GeneralExpand(_, _)
GeneralExpand(r, ids) ==
    IF ids = {} \/ r.err # "none" THEN r
    ELSE LET i == CHOOSE x \in ids : \A y \in ids : x <= y IN
         IF i \notin DOMAIN r.shelf THEN [r EXCEPT !.err = "KeyError"]
         ELSE IF r.shelf[i].kind = "row" THEN [r EXCEPT !.err = "IndexError"]
         ELSE The({GeneralExpand(r1, ids \ {i}) :
                    r1 \in {[r EXCEPT !.shelf = Put(@, i, BareRow(r.shelf[i].emb[1]))]}})

General_on_complete(w) ==
    LET ents == GeneralExpand([shelf |-> w.store.ent_partition, err |-> "none"],
                              GeneralAllIds(NumEnts, partitioner_k))
        rels == GeneralExpand([shelf |-> w.store.rel_partition, err |-> "none"], Rels)
        w1 == [w EXCEPT !.store.ent_partition = ents.shelf]
    IN  IF ents.err # "none" THEN Raise(w1, ents.err)
        ELSE IF rels.err # "none" THEN Raise([w1 EXCEPT !.store.rel_partition = rels.shelf], rels.err)
        ELSE [w1 EXCEPT !.store.rel_partition = rels.shelf]

\* ----------------------------------------- Bucket: BucketPartitionedDataManager

\* a partition is named "bucket{src}-{dst}"; the name is kept as the pair [src, dst].
\* splits[0][-1] is the last character of "bucket{src}", the last decimal digit of src
SourceBucket(name) == name.src % 10

\* splits[1] is the text after the dash
DestBucket(name) == name.dst

\* all_keys_merged_buckets: the source bucket's members, then the destination bucket's unless
\* the two names are equal
MergedKeys(files, name) ==
    files[SourceBucket(name) + 1]
        \o (IF SourceBucket(name) # DestBucket(name) THEN files[DestBucket(name) + 1] ELSE <<>>)

\* the positions counted from 1
MergedPosition_one_based(keys, key) ==
    CHOOSE p \in 1 .. Len(keys) :
        /\ keys[p] = key
        /\ \A p2 \in 1 .. Len(keys) : keys[p2] = key => p2 <= p

\* merged_bucket_to_ent_mat_mappings[key]: a later occurrence of a key overwrites an earlier one
MergedPosition(keys, key) ==
    (CHOOSE p \in 1 .. Len(keys) :
        /\ keys[p] = key
        /\ \A p2 \in 1 .. Len(keys) : keys[p2] = key => p2 <= p) - 1

\* emb_mat_order of one partition: local index -> global ID -> position in the merged buckets
EmbMatOrder(files, part) ==
    [j \in 1 .. Len(part.entities) |-> MergedPosition(MergedKeys(files, part.name), part.entities[j])]

\* _generate_partition_params: one entry per bucket, one relation entry, one remap table per partition
Bucket_generate_partition_params(files, partitions, k) ==
    [ent_partition |->
        [i \in 0 .. (k - 1) |->
            Pair([j \in 1 .. Len(files[i + 1]) |-> Zeros(OptWidth)],
                 [j \in 1 .. Len(files[i + 1]) |-> EntInit(files[i + 1][j])])],
     rel_partition |->
        [i \in {0} |-> Pair([r \in 1 .. NumRels |-> Zeros(OptWidth)],
                            [r \in 1 .. NumRels |-> RelInit(r - 1)])],
     ent_partition_metadata |->
        [i \in 0 .. (Len(partitions) - 1) |-> EmbMatOrder(files, partitions[i + 1])],
     rel_partition_metadata |->
        [i \in 0 .. (Len(partitions) - 1) |-> partitions[i + 1].relations]]

\* the positions of ids that lie outside an array of n rows
OutOfRange(ids, n) == \E j \in 1 .. Len(ids) : ids[j] >= n

Bucket_change_partition(w0, partition_number) ==
    LET part == partitioner.partitions[partition_number + 1]
        w == [Call(w0, "change", partition_number) EXCEPT !.mgr.loaded = FALSE]
        ent_meta == w.store.ent_partition_metadata
        rel_meta == w.store.rel_partition_metadata
        s == w.store.ent_partition
        r == w.store.rel_partition
        source_bucket == SourceBucket(part.name)
        dest_bucket == DestBucket(part.name)
    IN
    IF partition_number \notin DOMAIN ent_meta THEN Raise(w, "KeyError")
    ELSE LET w1 == [w EXCEPT !.mgr.ent_original_ids = ent_meta[partition_number]] IN
    IF partition_number \notin DOMAIN rel_meta THEN Raise(w1, "KeyError")
    ELSE LET w2 == [w1 EXCEPT !.mgr.rel_original_ids = rel_meta[partition_number]] IN
    IF source_bucket \notin DOMAIN s \/ dest_bucket \notin DOMAIN s THEN Raise(w2, "KeyError")
    ELSE IF s[source_bucket].kind = "row" \/ s[dest_bucket].kind = "row" THEN Raise(w2, "ValueError")
    ELSE LET source_bucket_params == s[source_bucket]
             dest_source_bucket_params == s[dest_bucket]
             all_ent_embs == source_bucket_params.emb \o dest_source_bucket_params.emb
             all_ent_opt_params == source_bucket_params.opt \o dest_source_bucket_params.opt
             w3 == [w2 EXCEPT !.mgr.all_ent_embs = all_ent_embs,
                              !.mgr.split_emb_idx = Len(source_bucket_params.emb)]
             w4 == [w3 EXCEPT !.mgr.all_ent_opt_params = all_ent_opt_params,
                              !.mgr.split_opt_idx = Len(source_bucket_params.opt)]
         IN
    IF Cardinality(Widths(all_ent_opt_params)) > 1 THEN Raise(w3, "ValueError")
    ELSE IF OutOfRange(w4.mgr.ent_original_ids, Len(all_ent_embs)) THEN Raise(w4, "IndexError")
    ELSE IF OutOfRange(w4.mgr.ent_original_ids, Len(all_ent_opt_params)) THEN Raise(w4, "IndexError")
    ELSE IF 0 \notin DOMAIN r THEN Raise(w4, "KeyError")
    ELSE IF r[0].kind = "row" THEN Raise(w4, "IndexError")
    ELSE LET w5 == [w4 EXCEPT !.mgr.all_rel_embs = r[0].emb,
                              !.mgr.all_rel_opt_params = r[0].opt]
         IN
    IF OutOfRange(w5.mgr.rel_original_ids, Len(r[0].emb)) THEN Raise(w5, "IndexError")
    ELSE IF OutOfRange(w5.mgr.rel_original_ids, Len(r[0].opt)) THEN Raise(w5, "IndexError")
    ELSE LET ent_embs == Select(all_ent_embs, w5.mgr.ent_original_ids)
             ent_opt_params == Select(all_ent_opt_params, w5.mgr.ent_original_ids)
             rel_embs == Select(r[0].emb, w5.mgr.rel_original_ids)
             rel_opt_params == Select(r[0].opt, w5.mgr.rel_original_ids)
             w6 == partition_change_updates([w5 EXCEPT !.mgr.loaded = TRUE],
                                            Len(w5.mgr.ent_original_ids), ent_embs, rel_embs)
         IN  IF \/ w6.model.current_epoch > 1
                \/ (w6.model.current_epoch = 1 /\ partition_number > partitioner_k)
             THEN PadHyperparams(w6, ent_opt_params, rel_opt_params)
             ELSE w6

\* a[ids, :, :] = rows for an optimizer state a of width OptWidth: rows of the same width are
\* copied, rows of width 1 are broadcast over the width, anything else is a shape error
BroadcastRows(rows, width) ==
    [j \in 1 .. Len(rows) |->
        IF Len(rows[j]) = width THEN rows[j] ELSE [i \in 1 .. width |-> rows[j][1]]]

CanBroadcast(m, a) == \A j \in 1 .. Len(a) : m = Len(a[j]) \/ m = 1

Bucket_update_partion_embeddings(w0, partition_number) ==
    LET part == partitioner.partitions[partition_number + 1]
        w == Call(w0, "update", partition_number)
        ent_ids == w.mgr.ent_original_ids
        rel_ids == w.mgr.rel_original_ids
        m == w.model.num_opt
        s == w.store.ent_partition
        source_bucket == SourceBucket(part.name)
        dest_bucket == DestBucket(part.name)
    IN
    IF Len(w.model.ent_emb) < Len(ent_ids) THEN Raise(w, "ValueError")
    ELSE LET w1 == [w EXCEPT !.mgr.all_ent_embs =
                        Scatter(@, ent_ids, Take(w.model.ent_emb, Len(ent_ids)))] IN
    IF Len(w.model.rel_emb) < Len(rel_ids) THEN Raise(w1, "ValueError")
    ELSE LET w2 == [w1 EXCEPT !.mgr.all_rel_embs =
                        Scatter(@, rel_ids, Take(w.model.rel_emb, Len(rel_ids)))]
             rel_rows == StackedHyperparams(w.model.rel_opt, Len(rel_ids))
             ent_rows == StackedHyperparams(w.model.ent_opt, Len(ent_ids))
         IN
    IF m > 0 /\ (Len(rel_rows) # Len(rel_ids) \/ ~CanBroadcast(m, w2.mgr.all_rel_opt_params))
    THEN Raise(w2, "ValueError")
    ELSE LET w3 == IF m > 0
                   THEN [w2 EXCEPT !.mgr.all_rel_opt_params =
                            Scatter(@, rel_ids, BroadcastRows(rel_rows, OptWidth))]
                   ELSE w2 IN
    IF m > 0 /\ (Len(ent_rows) # Len(ent_ids) \/ ~CanBroadcast(m, w3.mgr.all_ent_opt_params))
    THEN Raise(w3, "ValueError")
    ELSE LET w4 == IF m > 0
                   THEN [w3 EXCEPT !.mgr.all_ent_opt_params =
                            Scatter(@, ent_ids, BroadcastRows(ent_rows, OptWidth))]
                   ELSE w3 IN
    IF source_bucket \notin DOMAIN s \/ dest_bucket \notin DOMAIN s THEN Raise(w4, "KeyError")
    ELSE LET opt_params == <<Take(w4.mgr.all_ent_opt_params, w4.mgr.split_opt_idx),
                             Drop(w4.mgr.all_ent_opt_params, w4.mgr.split_opt_idx)>>
             emb_params == <<Take(w4.mgr.all_ent_embs, w4.mgr.split_emb_idx),
                             Drop(w4.mgr.all_ent_embs, w4.mgr.split_emb_idx)>>
             s1 == Put(s, source_bucket, Pair(opt_params[1], emb_params[1]))
             s2 == Put(s1, dest_bucket, Pair(opt_params[2], emb_params[2]))
         IN  [w4 EXCEPT !.store.ent_partition = s2,
                        !.store.rel_partition =
                            Put(@, 0, Pair(w4.mgr.all_rel_opt_params, w4.mgr.all_rel_embs))]

\* on_complete, entities: buckets from the highest to the lowest; each member's row is stored
\* under the member's ID, then the bucket's own entry is deleted unless it is bucket 0
RECURSIVE BucketExpandRows(_, _, _, _)
BucketExpandRows(shelf, indexes, rows, j) ==
    IF j > Min(Len(indexes), Len(rows)) THEN shelf
    ELSE BucketExpandRows(Put(shelf, indexes[j], BareRow(rows[j])), indexes, rows, j + 1)

RECURSIVE BucketExpand(_, _, _)
BucketExpand(r, files, i) ==
    IF i < 0 \/ r.err # "none" THEN r
    ELSE IF i \notin DOMAIN r.shelf THEN [r EXCEPT !.err = "KeyError"]
    ELSE IF r.shelf[i].kind = "row" THEN [r EXCEPT !.err = "TypeError"]
    ELSE The({BucketExpand([r EXCEPT !.shelf = IF i # 0 THEN Del(expanded, i) ELSE expanded],
                           files, i - 1) :
               expanded \in {BucketExpandRows(r.shelf, files[i + 1], r.shelf[i].emb, 1)}})

\* the relation loop run from the first row to the last
RECURSIVE BucketExpandRelsFrom(_, _, _)
BucketExpandRelsFrom(r, key, last) ==
    IF key > last \/ r.err # "none" THEN r
    ELSE IF r.shelf[0].kind = "row" THEN [r EXCEPT !.err = "IndexError"]
    ELSE The({BucketExpandRelsFrom(r1, key + 1, last) :
               r1 \in {[r EXCEPT !.shelf = Put(@, key, BareRow(r.shelf[0].emb[key + 1]))]}})

BucketExpandRels_ascending(r, key) == BucketExpandRelsFrom(r, 0, key)

\* on_complete, relations: rows from the last to the first, each read out of entry '0'
RECURSIVE BucketExpandRels(_, _)
BucketExpandRels(r, key) ==
    IF key < 0 \/ r.err # "none" THEN r
    ELSE IF r.shelf[0].kind = "row" THEN [r EXCEPT !.err = "IndexError"]
    ELSE The({BucketExpandRels(r1, key - 1) :
               r1 \in {[r EXCEPT !.shelf = Put(@, key, BareRow(r.shelf[0].emb[key + 1]))]}})

Bucket_on_complete(w) ==
    LET ents == BucketExpand([shelf |-> w.store.ent_partition, err |-> "none"],
                             partitioner.files, partitioner_k - 1)
        w1 == [w EXCEPT !.store.ent_partition = ents.shelf]
        rel_shelf == w.store.rel_partition
    IN  IF ents.err # "none" THEN Raise(w1, ents.err)
        ELSE IF 0 \notin DOMAIN rel_shelf THEN Raise(w1, "KeyError")
        ELSE IF rel_shelf[0].kind = "row" THEN Raise(w1, "IndexError")
        ELSE LET rels == BucketExpandRels([shelf |-> rel_shelf, err |-> "none"],
                                          Len(rel_shelf[0].emb) - 1)
             IN  IF rels.err # "none"
                 THEN Raise([w1 EXCEPT !.store.rel_partition = rels.shelf], rels.err)
                 ELSE [w1 EXCEPT !.store.rel_partition = rels.shelf]

\* ------------------------------------------------------ strategy dispatch

_generate_partition_params(strat, files, partitions, k) ==
    IF strat = "Flat" THEN General_generate_partition_params(NumEnts, k)
    ELSE Bucket_generate_partition_params(files, partitions, k)

\* _change_partition that leaves the first key of the entity remap table out
change_partition_skipping_first(w, partition_number) ==
    The({[r EXCEPT !.mgr.ent_original_ids = IF @ = <<>> THEN @ ELSE Tail(@)] :
            r \in {IF strategy = "Flat" THEN General_change_partition(w, partition_number)
                   ELSE Bucket_change_partition(w, partition_number)}})

_change_partition(w, partition_number) ==
    IF strategy = "Flat" THEN General_change_partition(w, partition_number)
    ELSE Bucket_change_partition(w, partition_number)

_update_partion_embeddings(w, partition_number) ==
    IF strategy = "Flat" THEN General_update_partion_embeddings(w, partition_number)
    ELSE Bucket_update_partion_embeddings(w, partition_number)

\* on_complete that also empties the two metadata shelves
on_complete_clearing_metadata(w) ==
    The({[r EXCEPT !.store.ent_partition_metadata = <<>>,
                   !.store.rel_partition_metadata = <<>>] :
            r \in {IF strategy = "Flat" THEN General_on_complete(w) ELSE Bucket_on_complete(w)}})

on_complete(w) ==
    IF strategy = "Flat" THEN General_on_complete(w) ELSE Bucket_on_complete(w)

\* ------------------------------------------------- the partitioner's output

\* the members of a set of numbers in ascending order
RECURSIVE Ascending(_)
Ascending(S) ==
    IF S = {} THEN <<>>
    ELSE LET x == CHOOSE y \in S : \A z \in S : y <= z IN <<x>> \o Ascending(S \ {x})

Reverse(a) == [j \in 1 .. Len(a) |-> a[Len(a) + 1 - j]]

\* the relation remap table of partition p: every relation, or one relation only
RelationsOf(p, rel_layout) ==
    IF rel_layout = "all" THEN Ascending(Rels) ELSE <<p % NumRels>>

\* the entity remap table of a partition over the members keys: all of them in order, or all
\* but the first in reverse order (a partition need not use every member)
EntitiesOf(keys, ent_layout) ==
    IF ent_layout = "full" \/ keys = <<>> THEN keys ELSE Reverse(Tail(keys))

\* Flat: the entities are dealt to the k partitions in turn, so that the partitions are
\* disjoint, cover every entity and none is empty when there are at least k entities
FlatPartitions(k, ent_layout, rel_layout, nbatch) ==
    [p \in 1 .. k |->
        [name |-> [src |-> p - 1, dst |-> p - 1],
         entities |-> IF ent_layout = "full" THEN Ascending({e \in Ents : e % k = p - 1})
                      ELSE Reverse(Ascending({e \in Ents : e % k = p - 1})),
         relations |-> RelationsOf(p - 1, rel_layout),
         nbatch |-> nbatch[p]]]

\* Bucket: files[b] lists the members of bucket b; there is one partition per ordered pair of
\* buckets, named "bucket{src}-{dst}"
BucketFiles(bucket_of, k) ==
    [b \in 1 .. k |-> Ascending({e \in Ents : bucket_of[e] = b - 1})]

\* the partition names: the pairs (b, b + 1), and those after the pairs (b, b)
NextPairs(k) == [p \in 1 .. k |-> [src |-> p - 1, dst |-> p % k]]
SelfAndNextPairs(k) == [p \in 1 .. k |-> [src |-> p - 1, dst |-> p - 1]] \o NextPairs(k)

BucketPartitions(files, names, ent_layout, rel_layout, nbatch) ==
    [p \in 1 .. Len(names) |->
        LET name == names[p] IN
        [name |-> name,
         entities |-> EntitiesOf(MergedKeys(files, name), ent_layout),
         relations |-> RelationsOf(p - 1, rel_layout),
         nbatch |-> nbatch[p]]]

\* batch counts of n partitions: every partition emits b batches, except at most one that
\* emits none
BatchCounts(n) ==
    {[p \in 1 .. n |-> IF p = empty THEN 0 ELSE b] : empty \in 0 .. n, b \in 1 .. MaxBatches}

\* the remap-table layouts tried: <<entity layout, relation layout>>
Layouts == {<<"full", "all">>, <<"part", "one">>}

\* the assignments of entities to buckets tried: dealt in turn, or in contiguous ranges
BucketAssignments ==
    {[e \in Ents |-> e % PartitionerK],
     [e \in Ents |-> e \div UpdatePartSize(NumEnts, PartitionerK)]}

\* ------------------------------------------------------------------- Init

NoCall == [op |-> "none", part |-> -1, of |-> -1]

\* no method is looked at as its shelve operations
NoIO == [method |-> "none"]
\* a construction whose arguments are all valid: a partitioner, a model, a registered strategy
NoArgs == [entry |-> "manager", model |-> TRUE, partitioner |-> TRUE, registered |-> TRUE,
           asserts |-> TRUE]
\* no DataHandler drives the manager
NoHandler == [initial_epoch |-> 0, epochs |-> 0, epoch |-> 0, yielded |-> <<>>]
NoRet == [op |-> "init", kind |-> "none", part |-> -1, idx |-> -1, exc |-> "none"]

\* PartitionedDataManager.__init__ with the partitioner pt: the shelves are generated, nothing
\* is loaded, no generator exists; h is the DataHandler that holds the manager
ConstructedFor(strat, pt, m, h) ==
    /\ strategy = strat
    /\ partitioner = pt
    /\ store = _generate_partition_params(strat, pt.files, pt.partitions, pt.k)
    /\ mgr = [loaded |-> FALSE, ent_original_ids |-> <<>>, rel_original_ids |-> <<>>,
              all_ent_embs |-> <<>>, all_ent_opt_params |-> <<>>,
              all_rel_embs |-> <<>>, all_rel_opt_params |-> <<>>,
              split_emb_idx |-> 0, split_opt_idx |-> 0]
    /\ model = InitModel(m)
    /\ handed = [part |-> -1, ent_embs |-> <<>>, rel_embs |-> <<>>,
                 ent_opt |-> <<>>, rel_opt |-> <<>>, opt_set |-> FALSE]
    /\ batch_iterator = [st |-> "unset", i |-> 0]
    /\ ret = NoRet
    /\ calls = <<>>
    /\ prev = NoCall
    /\ epoch_log = [calls |-> <<>>, batches |-> <<>>,
                    trained |-> [p \in 0 .. (Len(pt.partitions) - 1) |-> 0],
                    persisted |-> {},
                    prev_clean |-> FALSE,
                    prev_trained |-> [p \in 0 .. (Len(pt.partitions) - 1) |-> 0]]
    /\ budget = [train |-> 0, reloads |-> 0]
    /\ io = NoIO
    /\ handler = h
    /\ args = NoArgs

\* a manager constructed on its own
Constructed(strat, pt, m) == ConstructedFor(strat, pt, m, NoHandler)

FlatPartitioner(ent_layout, rel_layout, nbatch) ==
    [k |-> PartitionerK, files |-> <<>>,
     partitions |-> FlatPartitions(PartitionerK, ent_layout, rel_layout, nbatch),
     cursor |-> [p \in 0 .. (PartitionerK - 1) |-> 0]]

BucketPartitioner(bucket_of, names, ent_layout, rel_layout, nbatch) ==
    LET files == BucketFiles(bucket_of, PartitionerK) IN
    [k |-> PartitionerK, files |-> files,
     partitions |-> BucketPartitions(files, names, ent_layout, rel_layout, nbatch),
     cursor |-> [p \in 0 .. (Len(names) - 1) |-> 0]]

\* Flat manager over the layouts of the remap tables
InitFlat ==
    \E layout \in Layouts, m \in OptCounts :
        Constructed("Flat",
                    FlatPartitioner(layout[1], layout[2], [p \in 1 .. PartitionerK |-> 1]), m)

\* Bucket manager over the bucket assignments and the layouts of the remap tables
InitBucket ==
    \E bucket_of \in BucketAssignments, layout \in Layouts, m \in OptCounts :
        Constructed("Bucket",
                    BucketPartitioner(bucket_of, SelfAndNextPairs(PartitionerK),
                                      layout[1], layout[2],
                                      [p \in 1 .. (2 * PartitionerK) |-> 1]), m)

\* both managers over every batch count, the entities dealt to the buckets in turn
LifecycleOver(h, counts) ==
    \/ \E layout \in Layouts, m \in counts, nbatch \in BatchCounts(PartitionerK) :
            ConstructedFor("Flat", FlatPartitioner(layout[1], layout[2], nbatch), m, h)
    \/ \E m \in counts, nbatch \in BatchCounts(PartitionerK) :
            ConstructedFor("Bucket",
                           BucketPartitioner([e \in Ents |-> e % PartitionerK],
                                             NextPairs(PartitionerK), "part", "all", nbatch),
                           m, h)

\* both managers with no optimizer hyperparameter and with as many as the shelves are made for
LifecycleFor(h) == LifecycleOver(h, OptCounts)

InitLifecycle == LifecycleFor(NoHandler)

\* ---------------------------------------------------------------- actions

LastCall == IF calls # <<>> THEN calls[Len(calls)] ELSE prev

\* the partitions a method has persisted: its _update_partion_embeddings calls that returned
PersistedBy(w) ==
    {w.calls[n].part : n \in {n2 \in 1 .. Len(w.calls) :
                                /\ w.calls[n2].op = "update"
                                /\ (n2 < Len(w.calls) \/ w.err = "none")}}

\* the variables a method leaves behind
Returns(w, op, kind, part, idx) ==
    /\ store' = w.store
    /\ mgr' = w.mgr
    /\ model' = w.model
    /\ handed' = w.handed
    /\ calls' = w.calls
    /\ ret' = [op |-> op, kind |-> IF w.err # "none" THEN "error" ELSE kind,
               part |-> part, idx |-> idx, exc |-> w.err]

\* one training step of the trainer on the partition it holds: 1 is added to every active
\* embedding row and optimizer row
Bump(a, n) == [j \in 1 .. Len(a) |-> IF j <= n THEN a[j] + 1 ELSE a[j]]

TrainerStep(limit) ==
    /\ mgr.loaded
    /\ LastCall.op = "change"
    /\ budget.train < limit
    /\ LET n_ent == model.count
           n_rel == Len(mgr.rel_original_ids)
       IN  model' = [model EXCEPT
                        !.ent_emb = Bump(@, n_ent),
                        !.rel_emb = Bump(@, n_rel),
                        !.ent_opt = [i \in 1 .. Len(@) |-> Bump(@[i], n_ent)],
                        !.rel_opt = [i \in 1 .. Len(@) |-> Bump(@[i], n_rel)]]
    /\ budget' = [budget EXCEPT !.train = @ + 1]
    /\ UNCHANGED <<args, handler, io, strategy, partitioner, store, mgr, handed, batch_iterator, ret, calls, prev>>

\* the trainer moves to the next epoch (model.current_epoch) while it holds no partition
AdvanceEpoch ==
    /\ model.current_epoch < MaxEpoch
    /\ LastCall.op # "change"
    /\ batch_iterator.st \in {"unset", "fresh"}
    /\ model' = [model EXCEPT !.current_epoch = @ + 1]
    /\ UNCHANGED <<args, handler, io, strategy, partitioner, store, mgr, handed, batch_iterator, ret, calls, prev,
                   epoch_log, budget>>

\* the manager is used until on_complete() has been called
Completed == ret.op = "on_complete"

\* a partition is checked out: loaded by _change_partition and not persisted yet
CheckedOut == LastCall.op = "change" /\ ret.kind # "error"

\* a direct call of _change_partition(partitions[i], i); the callers keep to the protocol
\* (_change_partition, training, _update_partion_embeddings)*, on_complete
CallChange ==
    \E i \in 0 .. (Len(partitioner.partitions) - 1) :
        /\ ~Completed
        /\ ~CheckedOut
        /\ Returns(_change_partition(World, i), "change", "none", i, -1)
        /\ UNCHANGED <<args, handler, io, strategy, partitioner, batch_iterator, prev, epoch_log, budget>>

\* a direct call of _update_partion_embeddings for the partition the manager holds
CallUpdate ==
    /\ CheckedOut
    /\ ~Completed
    /\ Returns(_update_partion_embeddings(World, handed.part), "update", "none", handed.part, -1)
    /\ UNCHANGED <<args, handler, io, strategy, partitioner, batch_iterator, prev, epoch_log, budget>>

\* a call of on_complete()
CallOnComplete ==
    /\ ~CheckedOut
    /\ Returns(on_complete(World), "on_complete", "none", -1, -1)
    /\ UNCHANGED <<args, handler, io, strategy, partitioner, batch_iterator, prev, epoch_log, budget>>

Train ==
    /\ ~Completed
    /\ TrainerStep(IF strategy = "Bucket" THEN MaxBucketTrain ELSE MaxTrain)
    /\ epoch_log' = [epoch_log EXCEPT !.trained[handed.part] = @ + 1]

NextOps == CallChange \/ Train \/ CallUpdate \/ CallOnComplete \/ AdvanceEpoch

\* -------------------------------------------- data_generator, __next__, reload

\* data_generator run until it yields, returns or raises, from the point where partition i is
\* entered (at = "enter": the for loop takes partition i and calls _change_partition) or
\* where the next batch of partition i is asked for (at = "pull")
RECURSIVE data_generator_skipping(_, _, _, _, _)
data_generator_skipping(w, cursor, i, at, skip) ==
    LET raised(w1) == [w |-> w1, cursor |-> cursor, it |-> [st |-> "finished", i |-> 0],
                       kind |-> "error", part |-> -1, idx |-> -1]
    IN
    IF at = "enter"
    THEN IF i >= Len(partitioner.partitions)
         THEN [w |-> w, cursor |-> cursor, it |-> [st |-> "finished", i |-> 0],
               kind |-> "stop", part |-> -1, idx |-> -1]
         ELSE The({IF w1.err # "none" THEN raised(w1)
                   ELSE data_generator_skipping(w1, cursor, i, "pull", skip) :
                    w1 \in {_change_partition(w, i)}})
    ELSE IF cursor[i] < partitioner.partitions[i + 1].nbatch
         THEN [w |-> w, cursor |-> [cursor EXCEPT ![i] = @ + 1],
               it |-> [st |-> "suspended", i |-> i],
               kind |-> "batch", part |-> i, idx |-> cursor[i]]
         ELSE The({IF w1.err # "none" THEN raised(w1)
                   ELSE data_generator_skipping(w1, cursor, i + 1, "enter", skip) :
                    w1 \in {IF i \in skip THEN w ELSE _update_partion_embeddings(w, i)}})

\* data_generator without the _update_partion_embeddings call between two partitions
data_generator_unpersisted(w, cursor, i, at) ==
    data_generator_skipping(w, cursor, i, at, 0 .. (Len(partitioner.partitions) - 2))

\* data_generator without the _update_partion_embeddings call after the last partition
data_generator_last_unpersisted(w, cursor, i, at) ==
    data_generator_skipping(w, cursor, i, at, {Len(partitioner.partitions) - 1})

\* data_generator with an _update_partion_embeddings call before the second batch of a partition
data_generator_persisting_early(w, cursor, i, at) ==
    IF at = "pull" /\ 0 < cursor[i] /\ cursor[i] < partitioner.partitions[i + 1].nbatch
    THEN The({data_generator_skipping(w1, cursor, i, at, {}) :
                w1 \in {_update_partion_embeddings(w, i)}})
    ELSE data_generator_skipping(w, cursor, i, at, {})

RECURSIVE data_generator(_, _, _, _)
data_generator(w, cursor, i, at) ==
    LET raised(w1) == [w |-> w1, cursor |-> cursor, it |-> [st |-> "finished", i |-> 0],
                       kind |-> "error", part |-> -1, idx |-> -1]
    IN
    IF at = "enter"
    THEN IF i >= Len(partitioner.partitions)
         THEN [w |-> w, cursor |-> cursor, it |-> [st |-> "finished", i |-> 0],
               kind |-> "stop", part |-> -1, idx |-> -1]
         ELSE The({IF w1.err # "none" THEN raised(w1) ELSE data_generator(w1, cursor, i, "pull") :
                    w1 \in {_change_partition(w, i)}})
    ELSE IF cursor[i] < partitioner.partitions[i + 1].nbatch
         THEN [w |-> w, cursor |-> [cursor EXCEPT ![i] = @ + 1],
               it |-> [st |-> "suspended", i |-> i],
               kind |-> "batch", part |-> i, idx |-> cursor[i]]
         ELSE The({IF w1.err # "none" THEN raised(w1)
                   ELSE data_generator(w1, cursor, i + 1, "enter") :
                    w1 \in {_update_partion_embeddings(w, i)}})

\* next(self.batch_iterator) with a generator that starts at the second partition
Resume_from_second(it, w, cursor) ==
    IF it.st = "fresh" THEN data_generator(w, cursor, 1, "enter")
    ELSE IF it.st = "suspended" THEN data_generator(w, cursor, it.i, "pull")
    ELSE [w |-> IF it.st = "unset" THEN Raise(w, "AttributeError") ELSE w,
          cursor |-> cursor, it |-> it,
          kind |-> IF it.st = "unset" THEN "error" ELSE "stop", part |-> -1, idx |-> -1]

\* next(self.batch_iterator)
Resume(it, w, cursor) ==
    IF it.st = "fresh" THEN data_generator(w, cursor, 0, "enter")
    ELSE IF it.st = "suspended" THEN data_generator(w, cursor, it.i, "pull")
    ELSE [w |-> IF it.st = "unset" THEN Raise(w, "AttributeError") ELSE w,
          cursor |-> cursor, it |-> it,
          kind |-> IF it.st = "unset" THEN "error" ELSE "stop", part |-> -1, idx |-> -1]

\* __next__: what next(self.batch_iterator) leaves behind
__next__ ==
    \E r \in {Resume(batch_iterator, World, partitioner.cursor)} :
    /\ Returns(r.w, "next", r.kind, r.part, r.idx)
    /\ prev' = LastCall
    /\ batch_iterator' = r.it
    /\ partitioner' = [partitioner EXCEPT !.cursor = r.cursor]
    /\ epoch_log' = [epoch_log EXCEPT
                        !.calls = @ \o r.w.calls,
                        !.persisted = @ \cup PersistedBy(r.w),
                        !.batches = IF r.kind = "batch"
                                    THEN Append(@, [part |-> r.part, idx |-> r.idx]) ELSE @]

\* a call of next() by the caller of the manager
Next_ ==
    /\ __next__
    /\ UNCHANGED <<args, handler, io, strategy, budget>>

\* reload() that keeps the generator and the partitioner where they stand
reload_keeping_iterator ==
    /\ ret' = [NoRet EXCEPT !.op = "reload"]
    /\ calls' = <<>>
    /\ prev' = LastCall
    /\ epoch_log' = [calls |-> <<>>, batches |-> <<>>,
                     trained |-> [p \in DOMAIN epoch_log.trained |-> 0],
                     persisted |-> epoch_log.persisted,
                     prev_clean |-> (batch_iterator.st = "finished" /\ ret.kind = "stop"),
                     prev_trained |-> epoch_log.trained]
    /\ budget' = [budget EXCEPT !.reloads = @ + 1]
    /\ UNCHANGED <<io, strategy, store, mgr, model, handed, partitioner, batch_iterator>>

\* reload(): the partitioner starts over and a new generator replaces the old one
reload ==
    /\ partitioner' = [partitioner EXCEPT !.cursor = [p \in DOMAIN @ |-> 0]]
    /\ batch_iterator' = [st |-> "fresh", i |-> 0]
    /\ ret' = [NoRet EXCEPT !.op = "reload"]
    /\ calls' = <<>>
    /\ prev' = LastCall
    /\ epoch_log' = [calls |-> <<>>, batches |-> <<>>,
                     trained |-> [p \in DOMAIN epoch_log.trained |-> 0],
                     persisted |-> epoch_log.persisted,
                     prev_clean |-> (batch_iterator.st = "finished" /\ ret.kind = "stop"),
                     prev_trained |-> epoch_log.trained]
    /\ budget' = [budget EXCEPT !.reloads = @ + 1]
    /\ UNCHANGED <<io, strategy, store, mgr, model, handed>>

\* a call of reload() by the caller of the manager
Reload ==
    /\ budget.reloads < MaxReloads
    /\ reload
    /\ UNCHANGED <<args, handler>>

\* the trainer trains on the batch it was given
TrainOnBatch ==
    /\ ret.kind = "batch"
    /\ TrainerStep(MaxTrain)
    /\ epoch_log' = [epoch_log EXCEPT !.trained[handed.part] = @ + 1]

Next == Reload \/ Next_ \/ TrainOnBatch \/ AdvanceEpoch

\* DataHandler(..., epochs, initial_epoch, use_partitioning=True) over a constructed manager
InitHandler ==
    \E initial_epoch \in 0 .. MaxInitialEpoch, epochs \in 0 .. MaxReloads :
        LifecycleFor([initial_epoch |-> initial_epoch, epochs |-> epochs,
                      epoch |-> initial_epoch, yielded |-> <<>>])

\* enumerate_epochs: the loop takes the next epoch of range(initial_epoch, epochs), calls
\* reload() and yields the epoch with the adapter
EnumerateEpochs ==
    /\ handler.epoch < handler.epochs
    /\ reload
    /\ handler' = [handler EXCEPT !.epoch = @ + 1, !.yielded = Append(@, handler.epoch)]
    /\ UNCHANGED args

NextEpochs == EnumerateEpochs \/ Next_ \/ TrainOnBatch \/ AdvanceEpoch

\* self._inferred_steps = None
None == -1

\* a DataHandler whose epochs are run by the loop
\*     for epoch, iterator in enumerate_epochs():
\*         with catch_stop_iteration():
\*             for step in steps(): next(iterator), train
\* at is "epochs" in the outer loop, "steps" in the inner one and "raised" once an exception
\* other than StopIteration has left the loop
InitSteps ==
    \E epochs \in 0 .. MaxReloads :
        LifecycleFor([initial_epoch |-> 0, epochs |-> epochs, epoch |-> 0, yielded |-> <<>>,
                      _current_iter |-> 0, _inferred_steps |-> None, at |-> "epochs",
                      exits |-> 0])

\* enumerate_epochs yields the next epoch and the loop enters steps(): _current_iter = 0
BeginEpoch ==
    /\ handler.at = "epochs"
    /\ handler.epoch < handler.epochs
    /\ reload
    /\ handler' = [handler EXCEPT !.epoch = @ + 1, !.yielded = Append(@, handler.epoch),
                                  !._current_iter = 0, !.at = "steps"]
    /\ UNCHANGED args

\* steps() that counts a step after its body has run: yield, then _current_iter += 1
Step_counting_late ==
    /\ handler.at = "steps"
    /\ IF handler._inferred_steps = None \/ handler._current_iter < handler._inferred_steps
       THEN /\ __next__
            /\ handler' =
                 [handler EXCEPT
                    !._current_iter = IF ret'.kind = "batch" THEN @ + 1 ELSE @,
                    !._inferred_steps = IF ret'.kind = "stop" /\ @ = None
                                        THEN handler._current_iter ELSE @,
                    !.at = IF ret'.kind = "stop" THEN "epochs"
                           ELSE IF ret'.kind = "error" THEN "raised" ELSE "steps"]
            /\ UNCHANGED <<args, io, strategy, budget>>
       ELSE /\ handler' = [handler EXCEPT !.at = "epochs", !.exits = @ + 1]
            /\ UNCHANGED <<args, io, strategy, partitioner, store, mgr, model, handed,
                           batch_iterator, ret, calls, prev, epoch_log, budget>>

\* one turn of steps() with its body: while the step count is unknown or not reached the
\* generator counts the step and yields, and the body calls next(iterator); a StopIteration
\* leaves the for loop and is caught by catch_stop_iteration, which sets _inferred_steps if it
\* is None. Otherwise the for loop ends (exits counts these ends)
Step ==
    /\ handler.at = "steps"
    /\ IF handler._inferred_steps = None \/ handler._current_iter < handler._inferred_steps
       THEN /\ __next__
            /\ handler' =
                 [handler EXCEPT
                    !._current_iter = @ + 1,
                    !._inferred_steps = IF ret'.kind = "stop" /\ @ = None
                                        THEN handler._current_iter + 1 ELSE @,
                    !.at = IF ret'.kind = "stop" THEN "epochs"
                           ELSE IF ret'.kind = "error" THEN "raised" ELSE "steps"]
            /\ UNCHANGED <<args, io, strategy, budget>>
       ELSE /\ handler' = [handler EXCEPT !.at = "epochs", !.exits = @ + 1]
            /\ UNCHANGED <<args, io, strategy, partitioner, store, mgr, model, handed,
                           batch_iterator, ret, calls, prev, epoch_log, budget>>

NextSteps == BeginEpoch \/ Step \/ TrainOnBatch \/ AdvanceEpoch

\* ---------------------------------------------------------- specifications

\* the epoch loop driving reload() and next()
Spec == InitLifecycle /\ [][Next]_vars

\* the epoch loop of a DataHandler that counts its steps
SpecSteps == InitSteps /\ [][NextSteps]_vars

\* the epoch loop over managers whose optimizer has 0 .. MaxOptCount hyperparameters
InitWidths == LifecycleOver(NoHandler, 0 .. MaxOptCount)
SpecWidths == InitWidths /\ [][Next]_vars

\* the DataHandler's epoch loop driving reload() and next()
SpecEpochs == InitHandler /\ [][NextEpochs]_vars

\* direct calls of the Flat manager's methods
SpecFlat == InitFlat /\ [][NextOps]_vars

\* direct calls of the methods of a manager of either strategy
InitOps == InitFlat \/ InitBucket
SpecOps == InitOps /\ [][NextOps]_vars

\* direct calls of the Bucket manager's methods
SpecBucket == InitBucket /\ [][NextOps]_vars

\* ------------------------------------------------------------------ claims

\* the partition calls of the last call, after the one partition call made before it
RecentCalls == <<prev>> \o calls

Change(i) == [op |-> "change", part |-> i, of |-> i]
Update(i) == [op |-> "update", part |-> i, of |-> i]

NumPartitions == Len(partitioner.partitions)

\* C1: every _change_partition call but the very first one comes right after an
\* _update_partion_embeddings call made for the partition the manager held, over any
\* sequence of reload() and next() calls.
C1_Alternation ==
    \A n \in 2 .. Len(RecentCalls) :
        RecentCalls[n].op = "change" =>
            \/ RecentCalls[n - 1].op = "none"
            \/ /\ RecentCalls[n - 1].op = "update"
               /\ RecentCalls[n - 1].part = RecentCalls[n - 1].of

\* C4: the first batch of a partition p >= 1 is returned by the next() call that first persisted
\* partition p - 1 and then loaded partition p; whenever a batch of partition p is returned,
\* partition p - 1 has been persisted since the reload().
C4_PersistThenLoad ==
    (ret.op = "next" /\ ret.kind = "batch" /\ ret.part >= 1) =>
        /\ \E n \in 1 .. Len(epoch_log.calls) :
                /\ epoch_log.calls[n] = Update(ret.part - 1)
                /\ \E n2 \in (n + 1) .. Len(epoch_log.calls) : epoch_log.calls[n2] = Change(ret.part)
        /\ ret.idx = 0 =>
                /\ Len(calls) >= 2
                /\ calls[Len(calls)] = Change(ret.part)
                /\ calls[Len(calls) - 1] = Update(ret.part - 1)

C4_Witness ==
    /\ ret.op = "next" /\ ret.kind = "batch" /\ ret.part = 1 /\ ret.idx = 0
    /\ calls = <<Update(0), Change(1)>>

\* every batch of every partition, partition by partition in the emitted order
RECURSIVE BatchesFrom(_)
BatchesFrom(p) ==
    IF p >= NumPartitions THEN <<>>
    ELSE [b \in 1 .. partitioner.partitions[p + 1].nbatch |-> [part |-> p, idx |-> b - 1]]
            \o BatchesFrom(p + 1)

\* every partition loaded and then persisted, once, in the emitted order
RECURSIVE CallsFrom(_)
CallsFrom(p) ==
    IF p >= NumPartitions THEN <<>> ELSE <<Change(p), Update(p)>> \o CallsFrom(p + 1)

IsPrefix(a, b) == Len(a) <= Len(b) /\ a = SubSeq(b, 1, Len(a))

EpochEnded == batch_iterator.st = "finished" /\ ret.op = "next" /\ ret.kind = "stop"

EndsEpoch ==
    (batch_iterator.st # "finished" /\ batch_iterator'.st = "finished" /\ ret'.kind = "stop") =>
        /\ ret'.op = "next"
        /\ calls' # <<>>
        /\ calls'[Len(calls')] = Update(NumPartitions - 1)

\* a next() call on the finished generator signals the end, makes no partition call and leaves
\* the shelves, the working slice and the trainer as they are
EndIsStable ==
    (batch_iterator.st = "finished" /\ batch_iterator'.st = "finished") =>
        /\ ret'.op = "next" /\ ret'.kind = "stop"
        /\ calls' = <<>>
        /\ UNCHANGED <<store, mgr, model, handed, partitioner>>

\* C6: when the last partition is exhausted the manager persists it and then signals the end of
\* the partitions; every later next() before the next reload() signals the end again without
\* reading or writing a shelf and without notifying the trainer.
C6_EndOfPartitions == [][EndsEpoch /\ EndIsStable]_vars

C6_Witness == EpochEnded /\ calls = <<>> /\ prev = Update(NumPartitions - 1)

\* C7: a next() call that would load a partition while the partition loaded before has not
\* been persisted raises an error and does not call _change_partition.
C7_FailsLoudly ==
    [][(batch_iterator.st = "fresh" /\ LastCall.op = "change" /\ batch_iterator'.st # "fresh") =>
            /\ ret'.kind = "error"
            /\ calls' = <<>>]_vars

\* a successful _update_partion_embeddings(p) is followed by _change_partition(p)
ReloadsSamePartition ==
    /\ ret.op = "update" /\ ret.kind # "error"
    /\ ret'.op = "change" /\ ret'.part = ret.part

\* the rows the trainer held when the partition was persisted
TrainedEntRows == Take(model.ent_emb, Len(mgr.ent_original_ids))
TrainedRelRows == Take(model.rel_emb, Len(mgr.rel_original_ids))
TrainedEntOpt == StackedHyperparams(model.ent_opt, Len(mgr.ent_original_ids))
TrainedRelOpt == StackedHyperparams(model.rel_opt, Len(mgr.rel_original_ids))

\* the re-loaded rows equal the rows the trainer held, row for row in remap order
RoundTrip ==
    ReloadsSamePartition =>
        /\ ret'.kind # "error"
        /\ mgr'.ent_original_ids = mgr.ent_original_ids
        /\ mgr'.rel_original_ids = mgr.rel_original_ids
        /\ handed'.ent_embs = TrainedEntRows
        /\ handed'.rel_embs = TrainedRelRows
        /\ model.num_opt > 0 => /\ mgr'.all_ent_opt_params = TrainedEntOpt
                                /\ mgr'.all_rel_opt_params = TrainedRelOpt

\* every partition has been trained once (1 added to each of its rows) and persisted
OneEpochDone ==
    /\ LastCall.op = "update"
    /\ \A p \in DOMAIN epoch_log.trained : epoch_log.trained[p] = 1

\* partition 0 is loaded again after that epoch: each of its entity rows is the original + 1
OneEpochPlusOne ==
    (OneEpochDone /\ ret'.op = "change" /\ ret'.part = 0) =>
        /\ ret'.kind # "error"
        /\ handed'.ent_embs =
              [j \in 1 .. Len(partitioner.partitions[1].entities) |->
                    EntInit(partitioner.partitions[1].entities[j]) + 1]

\* C2: Flat round trip: _change_partition(p), training, _update_partion_embeddings(p),
\* _change_partition(p) hands the trainer the embedding rows, and loads the optimizer rows, the
\* trainer held after training, row for row in remap order; after one epoch that adds 1 to
\* every row of every partition, loading partition 0 again hands original + 1 for each row.
C2_FlatRoundTrip == [][RoundTrip /\ OneEpochPlusOne]_vars

C2_Witness ==
    /\ strategy = "Flat"
    /\ ret.op = "change" /\ ret.part = 0 /\ ret.kind # "error"
    /\ calls = <<Change(0)>>
    /\ \A p \in DOMAIN epoch_log.trained : epoch_log.trained[p] = 1
    /\ model.num_opt > 0
    /\ handed.ent_embs = [j \in 1 .. Len(mgr.ent_original_ids) |->
                                EntInit(mgr.ent_original_ids[j]) + 1]
    /\ \A i \in 1 .. Len(mgr.all_ent_opt_params) :
            \A j \in 1 .. OptWidth : mgr.all_ent_opt_params[i][j] = 1

\* the partition a call was made for, and its two buckets as the manager reads them
PartitionOf(i) == partitioner.partitions[i + 1]
SelfPair(i) == SourceBucket(PartitionOf(i).name) = DestBucket(PartitionOf(i).name)

\* the optimizer rows of the loaded partition, picked out of the working matrix
LoadedEntOpt == Select(mgr.all_ent_opt_params, mgr.ent_original_ids)
LoadedRelOpt == Select(mgr.all_rel_opt_params, mgr.rel_original_ids)

BucketRoundTrip ==
    ReloadsSamePartition =>
        /\ ret'.kind # "error"
        /\ mgr'.ent_original_ids = mgr.ent_original_ids
        /\ handed'.ent_embs = TrainedEntRows
        /\ handed'.rel_embs = TrainedRelRows
        /\ model.num_opt > 0 => /\ LoadedEntOpt' = TrainedEntOpt
                                /\ LoadedRelOpt' = TrainedRelOpt

\* C3: Bucket round trip: for every partition, also one whose source and destination bucket
\* are the same, _change_partition(p), training, _update_partion_embeddings(p),
\* _change_partition(p) hands the trainer the rows it held after training.
C3_BucketRoundTrip == [][strategy = "Bucket" => BucketRoundTrip]_vars

\* C8: after _change_partition of a partition whose source and destination bucket are the same,
\* the working matrix has one row per member of that bucket, as many as the merged-bucket index
\* map built by _generate_partition_params has keys.
C8_SelfPairCountedOnce ==
    (strategy = "Bucket" /\ ret.op = "change" /\ ret.kind # "error" /\ SelfPair(ret.part)) =>
        /\ Len(mgr.all_ent_embs) = Len(partitioner.files[SourceBucket(PartitionOf(ret.part).name) + 1])
        /\ Len(mgr.all_ent_embs) = Len(MergedKeys(partitioner.files, PartitionOf(ret.part).name))
        /\ Len(mgr.all_ent_opt_params) = Len(mgr.all_ent_embs)

\* the bucket of entity e and e's position among the bucket's members
BucketOf(e) == CHOOSE b \in 0 .. (partitioner.k - 1) :
                    \E j \in 1 .. Len(partitioner.files[b + 1]) : partitioner.files[b + 1][j] = e
PlaceOf(e) == CHOOSE j \in 1 .. Len(partitioner.files[BucketOf(e) + 1]) :
                    partitioner.files[BucketOf(e) + 1][j] = e

\* the first on_complete() call of a manager
Completes == ret.op # "on_complete" /\ ret'.op = "on_complete"

\* C9: Bucket on_complete leaves in 'ent_partition' exactly one embedding row per global entity
\* ID: no ID missing, no bucket entry left in place of a row, each row the entity's last
\* persisted embedding, for every assignment of entities to buckets.
C9_OneRowPerEntity ==
    [][(strategy = "Bucket" /\ Completes) =>
            /\ ret'.kind # "error"
            /\ DOMAIN store'.ent_partition = Ents
            /\ \A e \in Ents :
                    /\ e \in DOMAIN store'.ent_partition
                    /\ store'.ent_partition[e] =
                            BareRow(store.ent_partition[BucketOf(e)].emb[PlaceOf(e)])]_vars

\* _change_partition reads the shelves and writes none
LoadKeepsStore == ret'.op = "change" => store' = store

\* the trainer holds the rows that were loaded for the partition
RowsUntouched ==
    /\ TrainedEntRows = Select(mgr.all_ent_embs, mgr.ent_original_ids)
    /\ TrainedRelRows = Select(mgr.all_rel_embs, mgr.rel_original_ids)
    /\ model.num_opt > 0 => /\ TrainedEntOpt = LoadedEntOpt
                            /\ TrainedRelOpt = LoadedRelOpt

\* persisting untouched rows leaves the two bucket entries as they are
NoOpUpdateKeepsBuckets ==
    (ret.op = "change" /\ ret.kind # "error" /\ ret'.op = "update" /\ RowsUntouched) =>
        /\ ret'.kind # "error"
        /\ LET name == PartitionOf(ret.part).name IN
           /\ store'.ent_partition[SourceBucket(name)] = store.ent_partition[SourceBucket(name)]
           /\ store'.ent_partition[DestBucket(name)] = store.ent_partition[DestBucket(name)]
        /\ DOMAIN store'.ent_partition = DOMAIN store.ent_partition

ZeroBeyond(t, n) == \A j \in (n + 1) .. Len(t) : t[j] = 0

\* C11: the optimizer hyperparameter tensors _change_partition hands to the trainer have
\* max_entities rows (entities) and num_relations rows (relations), the rows after the
\* partition's true row count are zero, and no partition has more rows than max_entities, so
\* that the padding amount is never negative.
C11_PaddedHyperparams ==
    /\ mgr.loaded => /\ Len(mgr.ent_original_ids) <= max_ent_size
                     /\ Len(mgr.rel_original_ids) <= num_rels
    /\ ret.exc # "ValueError"
    /\ handed.opt_set =>
        /\ Len(handed.ent_opt) = model.num_opt
        /\ Len(handed.rel_opt) = model.num_opt
        /\ \A i \in 1 .. Len(handed.ent_opt) :
                /\ Len(handed.ent_opt[i]) = max_ent_size
                /\ ZeroBeyond(handed.ent_opt[i], Len(mgr.ent_original_ids))
        /\ \A i \in 1 .. Len(handed.rel_opt) :
                /\ Len(handed.rel_opt[i]) = num_rels
                /\ ZeroBeyond(handed.rel_opt[i], Len(mgr.rel_original_ids))

\* trained optimizer rows were handed over for a partition smaller than max_entities
C11_Witness ==
    /\ handed.opt_set /\ model.num_opt > 0
    /\ Len(mgr.ent_original_ids) < max_ent_size
    /\ Len(mgr.ent_original_ids) >= 1
    /\ handed.ent_opt[1][1] > 0

\* a shelf entry with n embedding rows and n optimizer rows
PairOfRows(entry, n) == entry.kind = "pair" /\ Len(entry.emb) = n /\ Len(entry.opt) = n

\* Flat: one entry of one row per entity ID and per relation ID
FlatStoreShape ==
    /\ DOMAIN store.ent_partition = Ents
    /\ \A e \in Ents : PairOfRows(store.ent_partition[e], 1)
    /\ DOMAIN store.rel_partition = Rels
    /\ \A r \in Rels : PairOfRows(store.rel_partition[r], 1)

\* Bucket: one entry per bucket with one row per member, one entry with every relation
BucketStoreShape ==
    /\ DOMAIN store.ent_partition = 0 .. (partitioner.k - 1)
    /\ \A b \in 0 .. (partitioner.k - 1) :
            PairOfRows(store.ent_partition[b], Len(partitioner.files[b + 1]))
    /\ DOMAIN store.rel_partition = {0}
    /\ PairOfRows(store.rel_partition[0], NumRels)

\* C12: from the end of _generate_partition_params until on_complete, after any sequence of
\* _change_partition and _update_partion_embeddings calls, the store holds one entry of one
\* row per entity and relation ID (Flat) or, per bucket, as many embedding and optimizer rows
\* as the bucket has members (Bucket): the trainer's padding rows are never persisted.
C12_StoreShape ==
    /\ ~Completed => IF strategy = "Flat" THEN FlatStoreShape ELSE BucketStoreShape
    /\ ret.op = "update" => ret.kind # "error"

\* trained rows of a partition smaller than max_entities have been persisted
C12_Witness ==
    /\ ret.op = "update" /\ ret.kind # "error"
    /\ model.num_opt > 0
    /\ epoch_log.trained[ret.part] >= 1
    /\ 1 <= Len(mgr.ent_original_ids) /\ Len(mgr.ent_original_ids) < Len(model.ent_emb)

\* ------------------------------------- _generate_partition_params on its own

\* the shelves of a manager under construction, before _generate_partition_params has run
NoStore == [ent_partition |-> <<>>, rel_partition |-> <<>>,
            ent_partition_metadata |-> <<>>, rel_partition_metadata |-> <<>>]

\* a manager of class strat over the partitioner pt before its construction, called with the
\* arguments a
Unbuilt(strat, pt, a) ==
    /\ strategy = strat
    /\ partitioner = pt
    /\ store = NoStore
    /\ mgr = [loaded |-> FALSE, ent_original_ids |-> <<>>, rel_original_ids |-> <<>>,
              all_ent_embs |-> <<>>, all_ent_opt_params |-> <<>>,
              all_rel_embs |-> <<>>, all_rel_opt_params |-> <<>>,
              split_emb_idx |-> 0, split_opt_idx |-> 0]
    /\ model = InitModel(0)
    /\ handed = [part |-> -1, ent_embs |-> <<>>, rel_embs |-> <<>>,
                 ent_opt |-> <<>>, rel_opt |-> <<>>, opt_set |-> FALSE]
    /\ batch_iterator = [st |-> "unset", i |-> 0]
    /\ ret = NoRet
    /\ calls = <<>>
    /\ prev = NoCall
    /\ epoch_log = [calls |-> <<>>, batches |-> <<>>, trained |-> <<>>,
                    persisted |-> {}, prev_clean |-> FALSE, prev_trained |-> <<>>]
    /\ budget = [train |-> 0, reloads |-> 0]
    /\ io = NoIO
    /\ handler = NoHandler
    /\ args = a

\* a Flat manager over num_ents entities and k partitions before its construction, called with
\* the arguments a
UnderConstruction(n, k, a) ==
    Unbuilt("Flat", [k |-> k, num_ents |-> n, files |-> <<>>, partitions |-> <<>>,
                     cursor |-> <<>>], a)

\* a Flat manager over num_ents entities and k partitions, up to the last statement of __init__
InitGenerate ==
    \E n \in 0 .. MaxGenEnts, k \in 1 .. MaxGenK : UnderConstruction(n, k, NoArgs)

\* self._generate_partition_params(), the last statement of __init__
Generate ==
    /\ ret.op = "init"
    /\ store' = General_generate_partition_params(partitioner.num_ents, partitioner.k)
    /\ ret' = [NoRet EXCEPT !.op = "generate"]
    /\ UNCHANGED <<args, handler, io, strategy, partitioner, mgr, model, handed, batch_iterator, calls, prev,
                   epoch_log, budget>>

SpecGenerate == InitGenerate /\ [][Generate]_vars

\* the ranges of two different partitions share no ID
RangesDisjoint(n, k) ==
    \A p, q \in 0 .. (k - 1) :
        p # q => GeneralRange(n, k, p) \cap GeneralRange(n, k, q) = {}

\* C13: Flat _generate_partition_params: for every entity count >= 0 and partition count >= 1
\* the contiguous ranges of ceil(num_entities / P) IDs cover 0..num_entities-1 exactly once;
\* 'ent_partition' ends with one entry per entity ID and 'rel_partition' with one per relation
\* ID, each a zero optimizer state and a one-row embedding.
C13_FlatGenerateCovers ==
    ret.op = "generate" =>
        /\ RangesDisjoint(partitioner.num_ents, partitioner.k)
        /\ DOMAIN store.ent_partition = 0 .. (partitioner.num_ents - 1)
        /\ \A i \in DOMAIN store.ent_partition :
                /\ PairOfRows(store.ent_partition[i], 1)
                /\ store.ent_partition[i].opt = <<Zeros(OptWidth)>>
        /\ DOMAIN store.rel_partition = Rels
        /\ \A i \in DOMAIN store.rel_partition :
                /\ PairOfRows(store.rel_partition[i], 1)
                /\ store.rel_partition[i].opt = <<Zeros(OptWidth)>>

\* entity counts that the partition count does not divide, with an empty last range
C13_Witness ==
    /\ ret.op = "generate"
    /\ partitioner.num_ents = 5 /\ partitioner.k = 4
    /\ GeneralRange(5, 4, 3) = {}
    /\ Cardinality(DOMAIN store.ent_partition) = 5

\* C14: _change_partition hands the trainer the partition's persisted optimizer state exactly
\* when optimizer state of that partition has been persisted by an earlier pass, and never the
\* initial all-zero placeholder as if it were trained state.
C14_HandsPersistedState ==
    (ret.op = "next" /\ LastCall.op = "change" /\ ret.kind # "error" /\ model.num_opt > 0) =>
        (handed.opt_set <=> handed.part \in epoch_log.persisted)

\* C18: the embedding matrices _change_partition hands to the trainer have max_ent_size rows for
\* the entities and num_rels rows for the relations, whatever the partition's own row count.
C18_UniformLeadingDimension ==
    (LastCall.op = "change" /\ ret.kind # "error") =>
        /\ Len(handed.ent_embs) = max_ent_size
        /\ Len(handed.rel_embs) = num_rels

\* the batches of partition i returned to the caller since the last reload()
AllBatchesReturned(i) ==
    \A j \in 0 .. (partitioner.partitions[i + 1].nbatch - 1) :
        \E n \in 1 .. Len(epoch_log.batches) : epoch_log.batches[n] = [part |-> i, idx |-> j]

\* a step that is a call of next() making partition calls
NextMadeCalls == calls' # <<>> /\ epoch_log'.calls = epoch_log.calls \o calls'

\* C17: _update_partion_embeddings(i) is called only by a next() that is asked after every batch
\* of partition i has been returned, and reload() -- which drops the iterator wherever it
\* stands -- writes nothing to the store.
C17_PersistOnlyOnExhaustion ==
    [][/\ NextMadeCalls =>
            \A n \in 1 .. Len(calls') :
                calls'[n].op = "update" =>
                    /\ AllBatchesReturned(calls'[n].part)
                    /\ ret.kind \in {"batch", "none"}
       /\ (ret'.op = "reload" /\ budget'.reloads # budget.reloads) => store' = store]_vars

\* an epoch abandoned in the middle of a trained partition, after an earlier partition was
\* persisted by a next() asked after its last batch
C17_Witness ==
    /\ ret.op = "reload"
    /\ ~epoch_log.prev_clean
    /\ handed.part > 0
    /\ epoch_log.prev_trained[handed.part] > 0
    /\ partitioner.partitions[handed.part + 1].nbatch = MaxBatches
    /\ handed.part \notin epoch_log.persisted
    /\ epoch_log.persisted # {}

Max0(n) == IF n < 0 THEN 0 ELSE n

\* the first partition that has a batch
FirstPartitionWithBatches ==
    LET with == {p \in 0 .. (Len(partitioner.partitions) - 1) :
                    partitioner.partitions[p + 1].nbatch > 0}
    IN  CHOOSE p \in with : \A q \in with : p <= q

\* C20: enumerate_epochs calls reload() once for each epoch of initial_epoch..epochs-1, in
\* order, before it hands the adapter out; after a reload() the partitioner stands at its start,
\* the first partition call of next() is _change_partition of partition 0 and the first batch
\* returned is batch 0 of the first partition, wherever the iterator of the epoch before stood.
C20_ReloadOncePerEpoch ==
    /\ budget.reloads = Len(handler.yielded)
    /\ Len(handler.yielded) <= Max0(handler.epochs - handler.initial_epoch)
    /\ \A n \in 1 .. Len(handler.yielded) : handler.yielded[n] = handler.initial_epoch + n - 1
    /\ ret.op = "reload" =>
            /\ \A p \in DOMAIN partitioner.cursor : partitioner.cursor[p] = 0
            /\ batch_iterator.st = "fresh"
    /\ epoch_log.calls # <<>> => epoch_log.calls[1] = Change(0)
    /\ epoch_log.batches # <<>> =>
            epoch_log.batches[1] = [part |-> FirstPartitionWithBatches, idx |-> 0]

\* the first batch of the second epoch handed out, the epoch before left in mid-partition
C20_Witness ==
    /\ handler.initial_epoch = 0
    /\ handler.yielded = <<0, 1>>
    /\ ~epoch_log.prev_clean
    /\ epoch_log.prev_trained[0] > 0
    /\ partitioner.partitions[1].nbatch = MaxBatches
    /\ epoch_log.batches = <<[part |-> 0, idx |-> 0]>>

\* ------------------------------------------------ the methods as shelve operations

\* a shelf is named by its file: one of the four shelves of the manager (of = 0), a bucket file
\* of the partitioner or a remap table of a partition (of = the bucket or the partition)
Shelf(name, of) == [name |-> name, of |-> of]

Open(ns, var, style) == [op |-> "open", ns |-> ns, var |-> var, style |-> style]
Use(ns) == [op |-> "use", ns |-> ns, var |-> "", style |-> ""]
Close(ns, var, style) == [op |-> "close", ns |-> ns, var |-> var, style |-> style]
Uses(ns, n) == [j \in 1 .. n |-> Use(ns)]

\* a block that opens a shelf and never closes it
Block_unclosed(ns, var, style, body) == <<Open(ns, var, style)>> \o body

\* the operations of one block: "with shelve.open(ns) as var: body" (style "with") or
\* "try: var = shelve.open(ns); body; finally: var.close()" (style "try")
Block(ns, var, style, body) == <<Open(ns, var, style)>> \o body \o <<Close(ns, var, style)>>

\* the blocks of a loop, one script per iteration
Loop(iterations) == Concat(iterations)

EntPartition == Shelf("ent_partition", 0)
RelPartition == Shelf("rel_partition", 0)
EntMetadata == Shelf("ent_partition_metadata", 0)
RelMetadata == Shelf("rel_partition_metadata", 0)
BucketFile(i) == Shelf("file", i)

NumEntsOf(p) == Len(partitioner.partitions[p + 1].entities)
NumRelsOf(p) == Len(partitioner.partitions[p + 1].relations)

\* Flat _generate_partition_params: one block per part_num, one update per ID of its range
General_generate_script ==
    Loop([q \in 1 .. partitioner_k |->
            Block(EntPartition, "ent_partition", "with",
                  Uses(EntPartition, Cardinality(GeneralRange(NumEnts, partitioner_k, q - 1))))])
    \o Block(RelPartition, "rel_partition", "with", Uses(RelPartition, num_rels))

\* Flat _change_partition: the remap tables (keys(), then one read per key) and the two
\* shelves (two reads per ID)
General_change_script(p) ==
    Block(Shelf("entities_dict", p), "partition", "with",
          Uses(Shelf("entities_dict", p), 1 + NumEntsOf(p)))
    \o Block(EntPartition, "partition", "with", Uses(EntPartition, 2 * NumEntsOf(p)))
    \o Block(Shelf("relations_dict", p), "partition", "with",
             Uses(Shelf("relations_dict", p), 1 + NumRelsOf(p)))
    \o Block(RelPartition, "partition", "with", Uses(RelPartition, 2 * NumRelsOf(p)))

\* Flat _update_partion_embeddings: one write per ID
General_update_script(p) ==
    Block(EntPartition, "ent_partition", "try", Uses(EntPartition, NumEntsOf(p)))
    \o Block(RelPartition, "rel_partition", "try", Uses(RelPartition, NumRelsOf(p)))

\* Flat on_complete: one read and one write per ID
General_on_complete_script ==
    Loop([q \in 1 .. partitioner_k |->
            Block(EntPartition, "ent_partition", "with",
                  Uses(EntPartition, 2 * Cardinality(GeneralRange(NumEnts, partitioner_k, q - 1))))])
    \o Block(RelPartition, "rel_partition", "with", Uses(RelPartition, 2 * num_rels))

\* Bucket _generate_partition_params: the bucket loop with its nested blocks, the relations,
\* then the partition loop
Bucket_generate_script ==
    Loop([b \in 1 .. partitioner_k |->
            Block(EntPartition, "ent_partition", "with",
                  Block(BucketFile(b - 1), "bucket", "with",
                        <<Use(BucketFile(b - 1)), Use(EntPartition)>>))])
    \o Block(RelPartition, "rel_partition", "with", <<Use(RelPartition)>>)
    \o Loop([q \in 1 .. Len(partitioner.partitions) |->
            LET name == partitioner.partitions[q].name
                src == SourceBucket(name)
                dst == DestBucket(name)
            IN  Block(BucketFile(src), "bucket", "with", <<Use(BucketFile(src))>>)
                \o (IF src # dst
                    THEN Block(BucketFile(dst), "bucket", "with", <<Use(BucketFile(dst))>>)
                    ELSE <<>>)
                \o Block(Shelf("entities_shelf", q - 1), "ent_sh", "with",
                         Uses(Shelf("entities_shelf", q - 1), 1 + NumEntsOf(q - 1)))
                \o Block(EntMetadata, "metadata", "with", <<Use(EntMetadata)>>)
                \o Block(Shelf("relations", q - 1), "rel_sh", "with",
                         Uses(Shelf("relations", q - 1), 1 + NumRelsOf(q - 1)))
                \o Block(RelMetadata, "metadata", "with", <<Use(RelMetadata)>>)])

\* Bucket _change_partition: four try blocks that all bind the variable s
Bucket_change_script(p) ==
    Block(EntMetadata, "s", "try", <<Use(EntMetadata)>>)
    \o Block(RelMetadata, "s", "try", <<Use(RelMetadata)>>)
    \o Block(EntPartition, "s", "try", Uses(EntPartition, 2))
    \o Block(RelPartition, "s", "try", Uses(RelPartition, 2))

\* Bucket _update_partion_embeddings: two try blocks that bind the variable s
Bucket_update_script(p) ==
    Block(EntPartition, "s", "try", Uses(EntPartition, 4))
    \o Block(RelPartition, "s", "try", <<Use(RelPartition)>>)

\* Bucket on_complete: the buckets from the last to the first, 'ent_partition' opened inside the
\* bucket file; then one read of the length and a read and a write per relation
Bucket_on_complete_script ==
    Loop([q \in 1 .. partitioner_k |->
            LET i == partitioner_k - q IN
            Block(BucketFile(i), "bucket", "with",
                  Block(EntPartition, "ent_partition", "with",
                        <<Use(BucketFile(i)), Use(EntPartition)>>
                        \o Uses(EntPartition, Len(partitioner.files[i + 1]))
                        \o (IF i # 0 THEN <<Use(EntPartition)>> ELSE <<>>)))])
    \o Block(RelPartition, "rel_partition", "with", Uses(RelPartition, 1 + 2 * num_rels))

ScriptOf(method, p) ==
    IF strategy = "Flat"
    THEN CASE method = "generate" -> General_generate_script
           [] method = "change" -> General_change_script(p)
           [] method = "update" -> General_update_script(p)
           [] method = "on_complete" -> General_on_complete_script
    ELSE CASE method = "generate" -> Bucket_generate_script
           [] method = "change" -> Bucket_change_script(p)
           [] method = "update" -> Bucket_update_script(p)
           [] method = "on_complete" -> Bucket_on_complete_script

\* the operations that can fail: opening a shelf, reading or writing an entry
FaultPoints(script) == {n \in 1 .. Len(script) : script[n].op \in {"open", "use"}}

\* a method is entered; fault is the operation that will fail (0: none does)
IOEnter ==
    /\ io = NoIO
    /\ \E method \in {"generate", "change", "update", "on_complete"} :
       \E p \in (IF method \in {"change", "update"}
                 THEN 0 .. (Len(partitioner.partitions) - 1) ELSE {0}) :
       \E script \in {ScriptOf(method, p)} :
       \E fault \in {0} \cup FaultPoints(script) :
            io' = [method |-> method, part |-> p, script |-> script, pc |-> 1, fault |-> fault,
                   open |-> <<>>, bound |-> {}, exc |-> "none", status |-> "running"]
    /\ UNCHANGED <<args, handler, strategy, partitioner, store, mgr, model, handed, batch_iterator, ret,
                   calls, prev, epoch_log, budget>>

Running == io # NoIO /\ io.status = "running" /\ io.pc <= Len(io.script)

\* the operation at pc succeeds
IOStep ==
    /\ Running
    /\ io.pc # io.fault
    /\ LET instr == io.script[io.pc] IN
       io' = [io EXCEPT
                !.pc = @ + 1,
                !.open = IF instr.op = "open" THEN Append(@, instr.ns)
                         ELSE IF instr.op = "close" THEN SubSeq(@, 1, Len(@) - 1)
                         ELSE @,
                !.bound = IF instr.op = "open" THEN @ \cup {instr.var} ELSE @]
    /\ UNCHANGED <<args, handler, strategy, partitioner, store, mgr, model, handed, batch_iterator, ret,
                   calls, prev, epoch_log, budget>>

\* the operation at pc raises the store's error. A failing open has no handle to release; in
\* a try block the finally clause still runs var.close(): with var never bound that raises
\* UnboundLocalError in place of the store's error, with var bound by an earlier block it
\* closes a closed shelf again, which does nothing
IOFail ==
    /\ Running
    /\ io.pc = io.fault
    /\ LET instr == io.script[io.pc] IN
       io' = [io EXCEPT
                !.status = "unwinding",
                !.exc = IF instr.op = "open" /\ instr.style = "try" /\ instr.var \notin io.bound
                        THEN "UnboundLocalError" ELSE "StoreIOError"]
    /\ UNCHANGED <<args, handler, strategy, partitioner, store, mgr, model, handed, batch_iterator, ret,
                   calls, prev, epoch_log, budget>>

\* the exception leaves the innermost open block: __exit__ or the finally clause closes its
\* handle
IOUnwind ==
    /\ io # NoIO
    /\ io.status = "unwinding"
    /\ io.open # <<>>
    /\ io' = [io EXCEPT !.open = SubSeq(@, 1, Len(@) - 1)]
    /\ UNCHANGED <<args, handler, strategy, partitioner, store, mgr, model, handed, batch_iterator, ret,
                   calls, prev, epoch_log, budget>>

\* control goes back to the caller: the method returns or its exception propagates
IOReturn ==
    /\ io # NoIO
    /\ \/ io.status = "running" /\ io.pc > Len(io.script) /\ io' = [io EXCEPT !.status = "returned"]
       \/ io.status = "unwinding" /\ io.open = <<>> /\ io' = [io EXCEPT !.status = "raised"]
    /\ UNCHANGED <<args, handler, strategy, partitioner, store, mgr, model, handed, batch_iterator, ret,
                   calls, prev, epoch_log, budget>>

NextStoreIO == IOEnter \/ IOStep \/ IOFail \/ IOUnwind \/ IOReturn

\* one method of a constructed manager, operation by operation, with at most one failure
SpecStoreIO == InitOps /\ [][NextStoreIO]_vars

\* C15: at every point of every method at most one handle is open on any one shelf, and when
\* control is back with the caller -- the method returned or an error propagates -- no handle
\* is open.
C15_ExclusiveScoping ==
    io # NoIO =>
        /\ \A a, b \in 1 .. Len(io.open) : a # b => io.open[a] # io.open[b]
        /\ io.status \in {"returned", "raised"} => io.open = <<>>

\* an error raised inside two nested blocks has propagated
C15_Witness ==
    /\ io # NoIO
    /\ io.status = "raised"
    /\ io.script[io.fault].op = "use"
    /\ \E n \in 1 .. (io.fault - 2) : io.script[n].op = "open" /\ io.script[n + 1].op = "open"
    /\ io.script[io.fault - 1].op = "use"

\* C16: when an open, a read or a write of a shelf fails in _change_partition or
\* _update_partion_embeddings, the caller receives the store's failure itself and no handle
\* stays open, also when the failing operation is the open.
C16_StoreFailurePropagates ==
    (io # NoIO /\ io.method \in {"change", "update"} /\ io.status = "raised") =>
        /\ io.exc = "StoreIOError"
        /\ io.open = <<>>

\* ------------------------------------------------------------- construction

\* the calls that construct a manager: the manager class itself, get_partition_adapter, or
\* DataHandler with use_partitioning=True, which passes a GraphDataLoader as dataset_loader and
\* its epochs argument as strategy
ConstructorArgs ==
    {[entry |-> entry, model |-> m, partitioner |-> pt, registered |-> reg, asserts |-> on] :
        entry \in {"manager", "adapter"}, m \in BOOLEAN, pt \in BOOLEAN, reg \in BOOLEAN,
        on \in {TRUE}}
    \cup {[entry |-> "handler", model |-> m, partitioner |-> FALSE, registered |-> FALSE,
           asserts |-> on] : m \in BOOLEAN, on \in BOOLEAN}

InitConstruct ==
    \E n \in 0 .. MaxGenEnts, k \in 1 .. MaxGenK, a \in ConstructorArgs :
        UnderConstruction(n, k, a)

\* PartitionedDataManager.__init__: the exception it raises, "none" when it reaches
\* _generate_partition_params. The strategy name is looked up only when dataset_loader is
\* not a partitioner
manager_init(a) ==
    IF ~a.model THEN "AttributeError"
    ELSE IF a.partitioner THEN "none"
    ELSE IF ~a.registered THEN "TypeError"
    ELSE "none"

\* get_partition_adapter: a partitioner brings its own manager class and name; otherwise the
\* partitioner is built from the registry before the manager is constructed
get_partition_adapter(a) ==
    IF a.partitioner THEN manager_init(a)
    ELSE IF ~a.registered THEN "TypeError"
    ELSE manager_init([a EXCEPT !.partitioner = TRUE])

\* DataHandler.__init__ with use_partitioning=True; asserts is FALSE when the interpreter
\* runs with assert statements removed
DataHandler_init(a) ==
    IF a.asserts /\ ~a.model THEN "AssertionError"
    ELSE manager_init(a)

\* the construction call, from its first statement to the return of _generate_partition_params
Construct ==
    /\ ret.op = "init"
    /\ \E exc \in {IF args.entry = "manager" THEN manager_init(args)
                   ELSE IF args.entry = "adapter" THEN get_partition_adapter(args)
                   ELSE DataHandler_init(args)} :
        /\ store' = IF exc = "none"
                    THEN General_generate_partition_params(partitioner.num_ents, partitioner.k)
                    ELSE store
        /\ ret' = [NoRet EXCEPT !.op = "construct", !.exc = exc,
                                !.kind = IF exc = "none" THEN "none" ELSE "error"]
    /\ UNCHANGED <<args, handler, io, strategy, partitioner, mgr, model, handed, batch_iterator,
                   calls, prev, epoch_log, budget>>

SpecConstruct == InitConstruct /\ [][Construct]_vars

\* C19: constructing a manager without a model, or with a strategy name that is not registered,
\* fails with an error before any store entry is created; DataHandler with use_partitioning=True
\* refuses a missing model before it builds the manager.
C19_ConfigurationErrorBeforeStore ==
    ret.op = "construct" =>
        /\ (~args.model \/ ~args.registered) => (ret.exc # "none" /\ store = NoStore)
        /\ (args.entry = "handler" /\ args.asserts /\ ~args.model) => ret.exc = "AssertionError"

\* the entity remap table _change_partition loads for partition p
RemapLoadedBy(p) == _change_partition(World, p).mgr.ent_original_ids

\* the remap tables loaded by the _change_partition calls since the reload(), one after another
RemapsOfEpoch ==
    Concat([n \in 1 .. Len(epoch_log.calls) |->
                IF epoch_log.calls[n].op = "change"
                THEN RemapLoadedBy(epoch_log.calls[n].part) ELSE <<>>])

Occurrences(seq, e) == Cardinality({j \in 1 .. Len(seq) : seq[j] = e})

\* C21: Flat mode: over one full epoch the entity remap tables loaded by the successive
\* _change_partition calls hold every global entity ID exactly once.
C21_FlatCoverage ==
    (strategy = "Flat" /\ EpochEnded) =>
        /\ \A e \in Ents : Occurrences(RemapsOfEpoch, e) = 1
        /\ Len(RemapsOfEpoch) = NumEnts

\* a full Flat epoch over partitions of different sizes, the remap tables not in ID order
C21_Witness ==
    /\ strategy = "Flat"
    /\ EpochEnded
    /\ Len(epoch_log.batches) >= 2
    /\ Len(RemapLoadedBy(0)) > Len(RemapLoadedBy(1))
    /\ RemapLoadedBy(0) # Ascending({RemapLoadedBy(0)[j] : j \in 1 .. Len(RemapLoadedBy(0))})

\* the members of a sequence
Range(seq) == {seq[j] : j \in 1 .. Len(seq)}

\* row j of bucket b is at one of the remap positions of the loaded partition: a position below
\* the split offset is a row of the source bucket, any other a row of the destination bucket
AtRemapPosition(b, j) ==
    LET name == PartitionOf(handed.part).name IN
    \/ b = SourceBucket(name) /\ (j - 1) \in Range(mgr.ent_original_ids)
                              /\ j - 1 < mgr.split_emb_idx
    \/ b = DestBucket(name) /\ (mgr.split_emb_idx + j - 1) \in Range(mgr.ent_original_ids)

\* Bucket: every row of every bucket entry that is not at a remap position, and every relation
\* row that the relation remap does not name, keeps its embedding and its optimizer state
BucketUpdateFrame ==
    /\ DOMAIN store'.ent_partition = DOMAIN store.ent_partition
    /\ \A b \in DOMAIN store.ent_partition :
            /\ Len(store'.ent_partition[b].emb) = Len(store.ent_partition[b].emb)
            /\ Len(store'.ent_partition[b].opt) = Len(store.ent_partition[b].opt)
            /\ \A j \in 1 .. Len(store.ent_partition[b].emb) :
                    ~AtRemapPosition(b, j) =>
                        /\ store'.ent_partition[b].emb[j] = store.ent_partition[b].emb[j]
                        /\ store'.ent_partition[b].opt[j] = store.ent_partition[b].opt[j]
    /\ DOMAIN store'.rel_partition = DOMAIN store.rel_partition
    /\ Len(store'.rel_partition[0].emb) = Len(store.rel_partition[0].emb)
    /\ \A r \in Rels :
            r \notin Range(mgr.rel_original_ids) =>
                /\ store'.rel_partition[0].emb[r + 1] = store.rel_partition[0].emb[r + 1]
                /\ store'.rel_partition[0].opt[r + 1] = store.rel_partition[0].opt[r + 1]
    /\ store'.ent_partition_metadata = store.ent_partition_metadata
    /\ store'.rel_partition_metadata = store.rel_partition_metadata

\* Flat: every entry of an ID that is not in the loaded remap tables keeps its value
FlatUpdateFrame ==
    /\ DOMAIN store'.ent_partition = DOMAIN store.ent_partition
    /\ \A e \in DOMAIN store.ent_partition :
            e \notin Range(mgr.ent_original_ids) => store'.ent_partition[e] = store.ent_partition[e]
    /\ DOMAIN store'.rel_partition = DOMAIN store.rel_partition
    /\ \A r \in DOMAIN store.rel_partition :
            r \notin Range(mgr.rel_original_ids) => store'.rel_partition[r] = store.rel_partition[r]

\* C22: frame of _update_partion_embeddings: Bucket mode changes only the rows at the partition's
\* remap positions inside the source and destination bucket entries and the relation rows the
\* relation remap names; Flat mode changes only the entries of the IDs in the remap tables.
C22_UpdateFrame ==
    [][(ret.op = "change" /\ ret.kind # "error" /\ ret'.op = "update") =>
            IF strategy = "Flat" THEN FlatUpdateFrame ELSE BucketUpdateFrame]_vars

\* a trained Bucket partition of two different buckets was persisted; its remap leaves out a
\* row of its source bucket, which holds its initial value next to a trained row
C22_Witness ==
    /\ strategy = "Bucket"
    /\ ret.op = "update" /\ ret.kind # "error"
    /\ ~SelfPair(ret.part)
    /\ epoch_log.trained[ret.part] >= 1
    /\ model.num_opt > 0
    /\ LET b == SourceBucket(PartitionOf(ret.part).name) IN
       /\ \E j \in 1 .. Len(store.ent_partition[b].emb) :
            store.ent_partition[b].emb[j] = EntInit(partitioner.files[b + 1][j]) + 1
       /\ \E j \in 1 .. Len(store.ent_partition[b].emb) :
            /\ store.ent_partition[b].emb[j] = EntInit(partitioner.files[b + 1][j])
            /\ (j - 1) \notin Range(mgr.ent_original_ids)

\* ------------------------------------------------------------ partition names

\* a Bucket manager over one partition named "bucket{src}-{dst}"
InitNames ==
    \E src \in 0 .. MaxBucketIndex, dst \in 0 .. MaxBucketIndex :
        Unbuilt("Bucket",
                [k |-> MaxBucketIndex + 1, files |-> <<>>,
                 partitions |-> <<[name |-> [src |-> src, dst |-> dst], entities |-> <<>>,
                                   relations |-> <<>>, nbatch |-> 0]>>,
                 cursor |-> <<>>],
                NoArgs)

\* the three methods split the partition's name and use the two parts as the keys of the
\* bucket files and of the 'ent_partition' entries they open
ReadBucketKeys ==
    /\ io = NoIO
    /\ \E method \in {"generate", "change", "update"} :
        io' = [method |-> method,
               source_bucket |-> SourceBucket(partitioner.partitions[1].name),
               dest_bucket |-> DestBucket(partitioner.partitions[1].name)]
    /\ UNCHANGED <<args, handler, strategy, partitioner, store, mgr, model, handed, batch_iterator,
                   ret, calls, prev, epoch_log, budget>>

SpecNames == InitNames /\ [][ReadBucketKeys]_vars

\* C23: for a partition named "bucket{src}-{dst}" the three Bucket methods take bucket src as
\* the source and bucket dst as the destination, for every src and dst, also those of two
\* digits.
C23_NameParsing ==
    io # NoIO =>
        /\ io.source_bucket = partitioner.partitions[1].name.src
        /\ io.dest_bucket = partitioner.partitions[1].name.dst

\* C24: for every optimizer hyperparameter count m >= 0 an epoch runs without a shape error:
\* every _update_partion_embeddings writes the trainer's m optimizer vectors per row and every
\* later _change_partition loads and concatenates the optimizer state it finds.
C24_AnyHyperparamCount ==
    ret.op = "next" => ret.exc \notin {"ValueError", "IndexError"}

\* the entities whose rows make up the matrix _change_partition concatenates for partition i:
\* the members of the bucket stored under the source key, then those under the destination key
ConcatMembers(i) ==
    partitioner.files[SourceBucket(PartitionOf(i).name) + 1]
        \o partitioner.files[DestBucket(PartitionOf(i).name) + 1]

\* C25: Bucket mode: for every partition i the positions stored in ent_partition_metadata[i]
\* lie inside the matrix _change_partition concatenates for i, are pairwise distinct, and the
\* j-th position is the row of the global entity the j-th local index maps to; every value of
\* rel_partition_metadata[i] is a relation ID below num_rels.
C25_RemapValid ==
    strategy = "Bucket" =>
        \A i \in 0 .. (NumPartitions - 1) :
            LET positions == store.ent_partition_metadata[i]
                loaded == Bucket_change_partition(World, i)
            IN  /\ Len(positions) = Len(PartitionOf(i).entities)
                /\ \A j \in 1 .. Len(positions) :
                        /\ 0 <= positions[j] /\ positions[j] < Len(ConcatMembers(i))
                        /\ ConcatMembers(i)[positions[j] + 1] = PartitionOf(i).entities[j]
                        /\ \A j2 \in 1 .. Len(positions) : j2 # j => positions[j2] # positions[j]
                /\ ~Completed => /\ loaded.err = "none"
                                 /\ Len(loaded.mgr.all_ent_embs) = Len(ConcatMembers(i))
                /\ \A j \in 1 .. Len(store.rel_partition_metadata[i]) :
                        store.rel_partition_metadata[i][j] \in 0 .. (num_rels - 1)

\* a partition of two different buckets is loaded through a remap that leaves a member out
\* and reaches into the destination bucket's rows
C25_Witness ==
    /\ strategy = "Bucket"
    /\ ret.op = "change" /\ ret.kind # "error"
    /\ ~SelfPair(ret.part)
    /\ mgr.ent_original_ids = store.ent_partition_metadata[ret.part]
    /\ Len(mgr.ent_original_ids) < Len(mgr.all_ent_embs)
    /\ \E j \in 1 .. Len(mgr.ent_original_ids) : mgr.ent_original_ids[j] >= mgr.split_emb_idx
    /\ \E j \in 1 .. Len(mgr.ent_original_ids) : mgr.ent_original_ids[j] < mgr.split_emb_idx

\* ------------------------------------------------------------ C26

\* what _generate_partition_params wrote to the two metadata shelves
GeneratedMetadata ==
    The({<<g.ent_partition_metadata, g.rel_partition_metadata>> :
            g \in {Bucket_generate_partition_params(partitioner.files, partitioner.partitions,
                                                    partitioner_k)}})

\* C26: in Bucket mode the shelves ent_partition_metadata and rel_partition_metadata hold what
\* _generate_partition_params wrote, and no call of _change_partition,
\* _update_partion_embeddings or on_complete, nor a training step between them, changes
\* either of them
C26_MetadataWrittenOnce ==
    [][strategy = "Bucket" =>
          /\ <<store.ent_partition_metadata, store.rel_partition_metadata>> = GeneratedMetadata
          /\ store'.ent_partition_metadata = store.ent_partition_metadata
          /\ store'.rel_partition_metadata = store.rel_partition_metadata]_vars

\* on_complete has returned after a trained partition was persisted: the embedding shelves
\* have changed, the metadata shelves have not
C26_Witness ==
    /\ strategy = "Bucket"
    /\ ret.op = "on_complete" /\ ret.kind # "error"
    /\ \E p \in DOMAIN epoch_log.trained : epoch_log.trained[p] >= 1
    /\ \E e \in Ents : /\ e \in DOMAIN store.ent_partition
                        /\ store.ent_partition[e].kind = "row"
                        /\ store.ent_partition[e].emb = <<EntInit(e) + 1>>
    /\ <<store.ent_partition_metadata, store.rel_partition_metadata>> = GeneratedMetadata
    /\ store.ent_partition_metadata # <<>>

\* ------------------------------------------------------------ C27

\* the relation shelf after the relation loop of on_complete: one bare row per relation ID,
\* row r of the matrix that was stored under key 0
RelationsExpanded(before, after) ==
    /\ DOMAIN after = Rels
    /\ \A r \in Rels : after[r] = BareRow(before[0].emb[r + 1])

\* the entity loop of on_complete (lines 642-651) ends without raising
EntityLoopReturns ==
    BucketExpand([shelf |-> store.ent_partition, err |-> "none"],
                 partitioner.files, partitioner_k - 1).err = "none"

\* C27: the first on_complete() of a Bucket manager that gets to its relation loop leaves in
\* 'rel_partition', for every relation ID r, row r of the relation matrix persisted last
\* (the entry '0' of the moment of the call), entry '0' included, which is replaced last
C27_BucketRelationsExpanded ==
    [][(strategy = "Bucket" /\ Completes /\ EntityLoopReturns) =>
          /\ ret'.kind # "error"
          /\ store.rel_partition[0].kind = "pair"
          /\ Len(store.rel_partition[0].emb) = num_rels
          /\ RelationsExpanded(store.rel_partition, store'.rel_partition)]_vars

\* on_complete has expanded a relation matrix whose rows were trained and persisted
C27_Witness ==
    /\ strategy = "Bucket"
    /\ ret.op = "on_complete" /\ ret.kind # "error"
    /\ DOMAIN store.rel_partition = Rels
    /\ store.rel_partition[0] = BareRow(RelInit(0) + 1)
    /\ \E r \in Rels : r # 0 /\ store.rel_partition[r] = BareRow(RelInit(r))

\* ------------------------------------------------------------ C28

\* a shelf after the expansion: the same keys, each entry the bare embedding row of the
\* [optimizer, embedding] pair it held
RowsOf(before, after) ==
    /\ DOMAIN after = DOMAIN before
    /\ \A i \in DOMAIN before : /\ before[i].kind = "pair"
                                 /\ after[i] = BareRow(before[i].emb[1])

\* the first on_complete() of a Flat manager: both shelves keep their keys (the entity IDs,
\* the relation IDs) and hold the last persisted embedding row of each without its optimizer rows
FirstCallExpands ==
    (strategy = "Flat" /\ Completes) =>
        /\ ret'.kind # "error"
        /\ DOMAIN store.ent_partition = Ents
        /\ DOMAIN store.rel_partition = Rels
        /\ RowsOf(store.ent_partition, store'.ent_partition)
        /\ RowsOf(store.rel_partition, store'.rel_partition)

\* an on_complete() call made after on_complete() has returned
SecondCall == strategy = "Flat" /\ Completed /\ ret.kind # "error" /\ ret' # ret

\* C28 as stated: the first on_complete() of a Flat manager expands both shelves, and a second
\* call leaves the shelves in another state than the first call left them in
C28_SecondCallChangesStores ==
    [][FirstCallExpands /\ (SecondCall => store' # store)]_vars

\* C28 amended: the first on_complete() of a Flat manager expands both shelves; a second call
\* raises IndexError at the first entity and leaves both shelves as the first call left them
C28_SecondCallRaises ==
    [][FirstCallExpands /\ (SecondCall => (ret'.exc = "IndexError" /\ store' = store))]_vars

\* a second on_complete() has raised over shelves that hold a trained, persisted row
C28_Witness ==
    /\ strategy = "Flat"
    /\ ret.op = "on_complete" /\ ret.exc = "IndexError"
    /\ \E e \in Ents : store.ent_partition[e] = BareRow(EntInit(e) + 1)
    /\ \A e \in Ents : store.ent_partition[e].kind = "row"
    /\ \A r \in Rels : store.rel_partition[r].kind = "row"

\* ------------------------------------------------------------ C29

\* N: the batches one epoch emits
BatchesPerEpoch == Len(BatchesFrom(0))

\* the epoch the loop has just left ended with the call that exhausts the last partition: every
\* batch was returned, every partition was loaded and persisted, the last call being
\* _update_partion_embeddings for the last partition, and next() signalled the end
EpochRunToItsEnd ==
    /\ EpochEnded
    /\ epoch_log.batches = BatchesFrom(0)
    /\ epoch_log.calls = CallsFrom(0)
    /\ NumPartitions > 0 =>
            epoch_log.calls[Len(epoch_log.calls)] =
                [op |-> "update", part |-> NumPartitions - 1, of |-> NumPartitions - 1]

\* C29: with N batches in every epoch the steps() loop of every epoch, the first and the later
\* ones, makes N + 1 calls of next(), the last of which persists the last partition and raises
\* StopIteration: the for loop never ends on its step count, no other exception leaves it,
\* _inferred_steps is None until the first epoch ends and N + 1 from then on
C29_EveryEpochExhausted ==
    /\ handler.at # "raised"
    /\ handler.exits = 0
    /\ handler._inferred_steps =
            IF handler.yielded = <<>> \/ (Len(handler.yielded) = 1 /\ handler.at = "steps")
            THEN None ELSE BatchesPerEpoch + 1
    /\ (handler.at = "epochs" /\ handler.yielded # <<>>) =>
            /\ EpochRunToItsEnd
            /\ handler._current_iter = BatchesPerEpoch + 1

\* the second epoch has ended, after the step count was inferred in the first, with trained
\* rows persisted for the last partition
C29_Witness ==
    /\ handler.at = "epochs"
    /\ Len(handler.yielded) = 2
    /\ BatchesPerEpoch = 2
    /\ NumPartitions > 1
    /\ handler._inferred_steps = 3
    /\ epoch_log.trained[NumPartitions - 1] > 0
    /\ (NumPartitions - 1) \in epoch_log.persisted

\* ------------------------------------------------------------ C30

\* C30: DataHandler(x, model, use_partitioning=True) with a model returns, and its adapter is a
\* manager whose partition parameters have been generated (the shelves exist), so that
\* reload() and next() can run on it
C30_HandlerBuildsManager ==
    (ret.op = "construct" /\ args.entry = "handler" /\ args.model) =>
        /\ ret.exc = "none"
        /\ store # NoStore
        /\ store = General_generate_partition_params(partitioner.num_ents, partitioner.k)
====
